---- MODULE Spec2Model ----
(***************************************************************************)
(* Portfolio ledger of portfoliovisuals.py: positions, cash, covered call  *)
(* contracts and dividend receivables, the button handlers that mutate     *)
(* them, the four text files they are saved to, and the start-up sweeps.   *)
(*                                                                         *)
(* Units.  Money is counted in mills (1 dollar = 1000), so that a price    *)
(* can lie strictly between a strike and the strike plus one cent.  Dates  *)
(* are positive day numbers; a string that strptime rejects is the date 0.  *)
(* Python floats are modelled as exact numbers: purchase_price, the only   *)
(* quantity the program divides, is a fraction in lowest terms.  Inputs    *)
(* that float() turns into nan or inf are not modelled, and the share      *)
(* counts drawn here are whole numbers.                                    *)
(*                                                                         *)
(* A Python dict is a sequence of records in insertion order, the key in   *)
(* field k.  The fields days_to_exp and date_sold of a covered call are    *)
(* only ever displayed and are left out.  A ticker is a plain symbol: it   *)
(* holds no colon and no blank, which the line format would not keep.      *)
(***************************************************************************)
EXTENDS Integers, Sequences, FiniteSets, TLC

\* ------------------------------------------------------------------ bounds
MaxOps == 3        \* accepted requests and relaunches in one behaviour
MaxDay == 1        \* days the clock can advance past the first launch

\* ------------------------------------------------------- program constants
LotSize == 100          \* shares per covered call contract
ExerciseMargin == 10    \* the 0.01 added to the strike, in mills
EstimatedPayLag == 21   \* timedelta(days=21)
EstimatedExLead == 3    \* timedelta(days=3)
HistoryWindow == 180    \* timedelta(days=180)
DedupTolerance == 5     \* abs(days) <= 5

\* ------------------------------------------------------------------ inputs
\* What the user types and what the market data provider answers, a few
\* values of each kind; 0 stands for a date that is not a YYYY-MM-DD string.
Tickers == {"AAPL", "MSFT"}
FirstDay == HistoryWindow + EstimatedPayLag    \* day of the first launch
LastDay == FirstDay + MaxDay
ClockDays == FirstDay..LastDay
InitialCash == {0, 5000000, 10000000}
BuyInputs ==
    {[shares |-> n, price |-> p, date |-> d] :
        <<n, p, d>> \in {<<100, 50000, FirstDay - 1>>, <<100, 50000, LastDay>>,
                         <<50, 40000, FirstDay>>}}
    \cup {[shares |-> 200, price |-> 50000, date |-> FirstDay - 1],
          [shares |-> 0, price |-> 50000, date |-> FirstDay - 1],
          [shares |-> 100, price |-> 0, date |-> FirstDay - 1],
          [shares |-> 100, price |-> 50000, date |-> 0]}
SellInputs == {-50, 0, 50, 100}
SellPrices == {0, 55000}                      \* 0: the provider failed
CashInputs == {-1000, 0, 5000000}
CallInputs ==
    {[exp_date |-> d, strike_price |-> 60000, premium |-> 2000] : d \in {FirstDay, LastDay}}
    \cup {[exp_date |-> FirstDay, strike_price |-> 0, premium |-> 2000],
          [exp_date |-> FirstDay, strike_price |-> 60000, premium |-> 0],
          [exp_date |-> 0, strike_price |-> 60000, premium |-> 2000]}
ExpiryPrices == {0, 60005, 60010}             \* 0: the provider failed
DividendRequests ==
    {[ex_div_date |-> FirstDay, payment_date |-> FirstDay + 1, dividend_per_share |-> 500],
     [ex_div_date |-> FirstDay, payment_date |-> FirstDay + 1, dividend_per_share |-> 0],
     [ex_div_date |-> FirstDay, payment_date |-> FirstDay, dividend_per_share |-> 500],
     [ex_div_date |-> 0, payment_date |-> FirstDay, dividend_per_share |-> 500]}
\* yf.Ticker(t).dividends: the call fails, or returns rows (date, amount)
HistoryInputs ==
    {[ok |-> FALSE, rows |-> <<>>],
     [ok |-> TRUE, rows |-> <<[date |-> FirstDay, amount |-> 250]>>]}
\* yf.Ticker(t).info: the call fails, or returns exDividendDate and dividendRate
\* (0: the key is missing); dividendRate / 4 is exact for the rates drawn here
InfoInputs ==
    {[ok |-> FALSE, exDividendDate |-> 0, dividendRate |-> 0],
     [ok |-> TRUE, exDividendDate |-> LastDay, dividendRate |-> 2000]}

VARIABLES
    portfolio,      \* dict ticker -> shares, purchase_price, purchase_date
    covered_calls,  \* dict call id -> ticker, exp_date, strike_price, premium
    dividends,      \* dict div id -> ticker, ex_div_date, payment_date, dividend_per_share, status
    cash_balance,   \* the global cash_balance
    files,          \* portfolio.txt, coveredcalls.txt, dividends.txt, cash.txt
    today,          \* datetime.now().date()
    past3pm,        \* datetime.now() is at or after 15:00
    pc,             \* "expiry", "historical", "upcoming", "payments": the sweep to run;
                    \* "returning": a handler or the last sweep has just ended;
                    \* "mainloop": waiting for the next button
    lastOp,         \* the last request and the message box it ended with
    nops,           \* number of requests so far
    scen            \* the parameters and the step of the end-to-end scenario

vars == <<portfolio, covered_calls, dividends, cash_balance, files, today,
          past3pm, pc, lastOp, nops, scen>>
ledger == <<portfolio, covered_calls, dividends, cash_balance>>

\* ----------------------------------------------------------------- numbers
Max(a, b) == IF a >= b THEN a ELSE b
Abs(a) == IF a >= 0 THEN a ELSE -a

RECURSIVE GCD(_, _)
GCD(a, b) == IF b = 0 THEN a ELSE GCD(b, a % b)

\* A fraction n/d, d > 0, in lowest terms.
Frac(n, d) == LET g == GCD(Abs(n), d) IN [n |-> n \div g, d |-> d \div g]
FracInt(i) == [n |-> i, d |-> 1]
FracAdd(x, y) == Frac(x.n * y.d + y.n * x.d, x.d * y.d)
FracMul(x, y) == Frac(x.n * y.n, x.d * y.d)
FracDivInt(x, i) == Frac(x.n, x.d * i)
FracSub(x, y) == FracAdd(x, [n |-> 0 - y.n, d |-> y.d])
\* x / y for y # 0
FracDiv(x, y) ==
    IF y.n > 0 THEN Frac(x.n * y.d, x.d * y.n)
    ELSE Frac(0 - x.n * y.d, 0 - x.d * y.n)

\* ------------------------------------------------------------------- dicts
Has(dict, key) == \E i \in 1..Len(dict) : dict[i].k = key
Get(dict, key) == dict[CHOOSE i \in 1..Len(dict) : dict[i].k = key]
\* dict[key] = entry: an existing key keeps its place, a new one goes last
Put(dict, entry) ==
    IF Has(dict, entry.k)
    THEN [i \in 1..Len(dict) |-> IF dict[i].k = entry.k THEN entry ELSE dict[i]]
    ELSE Append(dict, entry)
\* del dict[key]
Del(dict, key) == SelectSeq(dict, LAMBDA e : e.k # key)

Parsable(date) == date >= 1

\* ------------------------------------------------------------- persistence
\* One line per entry; the dict key of a call or a dividend is not written.
save_portfolio_data(pf) ==
    [i \in 1..Len(pf) |-> [ticker |-> pf[i].k, shares |-> pf[i].shares,
                           purchase_price |-> pf[i].purchase_price,
                           purchase_date |-> pf[i].purchase_date]]

RECURSIVE load_portfolio_lines(_, _)
load_portfolio_lines(lines, acc) ==
    IF lines = <<>> THEN acc
    ELSE load_portfolio_lines(Tail(lines),
             Put(acc, [k |-> Head(lines).ticker, shares |-> Head(lines).shares,
                       purchase_price |-> Head(lines).purchase_price,
                       purchase_date |-> Head(lines).purchase_date]))
load_portfolio_data(lines) == load_portfolio_lines(lines, <<>>)

save_covered_calls_data(calls) ==
    [i \in 1..Len(calls) |-> [ticker |-> calls[i].ticker, exp_date |-> calls[i].exp_date,
                              strike_price |-> calls[i].strike_price,
                              premium |-> calls[i].premium]]
\* the key is rebuilt from the line number: call_0, call_1, ...
load_covered_calls_data(lines) ==
    [i \in 1..Len(lines) |-> [k |-> i - 1, ticker |-> lines[i].ticker,
                              exp_date |-> lines[i].exp_date,
                              strike_price |-> lines[i].strike_price,
                              premium |-> lines[i].premium]]

save_dividends_data(divs) ==
    [i \in 1..Len(divs) |-> [ticker |-> divs[i].ticker, ex_div_date |-> divs[i].ex_div_date,
                             payment_date |-> divs[i].payment_date,
                             dividend_per_share |-> divs[i].dividend_per_share,
                             status |-> divs[i].status]]
load_dividends_data(lines) ==
    [i \in 1..Len(lines) |-> [k |-> i - 1, ticker |-> lines[i].ticker,
                              ex_div_date |-> lines[i].ex_div_date,
                              payment_date |-> lines[i].payment_date,
                              dividend_per_share |-> lines[i].dividend_per_share,
                              status |-> lines[i].status]]

\* ------------------------------------------------------------- encumbrance
\* get_shares_in_contracts().get(ticker, 0)
get_shares_in_contracts(calls, ticker) ==
    LotSize * Cardinality({i \in 1..Len(calls) : calls[i].ticker = ticker})

get_available_shares_uncontracted(pf, calls, ticker) ==
    IF ~Has(pf, ticker) THEN 0 ELSE Get(pf, ticker).shares

get_available_shares(pf, calls, ticker) ==
    IF ~Has(pf, ticker) THEN 0
    ELSE Max(0, Get(pf, ticker).shares - get_shares_in_contracts(calls, ticker))

PremiumPerShare(premium) == premium

\* lines 579 and 868: the premium of one contract
PremiumCollected(premium) == premium * LotSize

\* --------------------------------------------------------------- valuation
\* lines 545-575: the row of one position; a row whose percentage divides by
\* zero raises ZeroDivisionError
BreakdownRow(calls, position, current_price) ==
    LET shares == position.shares
        purchase_price == position.purchase_price
        current_value == shares * current_price
        cost == FracMul(FracInt(shares), purchase_price)
        gain_loss == FracSub(FracInt(current_value), cost)
        available_shares == Max(0, shares - get_shares_in_contracts(calls, position.k))
        contracted_shares == get_shares_in_contracts(calls, position.k)
    IN  [k |-> position.k,
         shares |-> shares,
         available_shares |-> available_shares,
         contracted_shares |-> contracted_shares,
         purchase_price |-> purchase_price,
         current_price |-> current_price,
         current_value |-> current_value,
         available_value |-> available_shares * current_price,
         contracted_value |-> contracted_shares * current_price,
         gain_loss |-> gain_loss,
         raises |-> purchase_price.n > 0 /\ cost.n = 0,
         gain_loss_percent |->
             IF purchase_price.n > 0 /\ cost.n # 0
             THEN FracMul(FracDiv(gain_loss, cost), FracInt(100))
             ELSE FracInt(0),
         purchase_date |-> position.purchase_date]

RECURSIVE SumOf(_, _)
SumOf(seq, field) ==
    IF seq = <<>> THEN 0 ELSE Head(seq)[field] + SumOf(Tail(seq), field)

\* lines 541-575: portfolio_breakdown, one row per position
Breakdown(pf, calls, prices) ==
    [i \in 1..Len(pf) |-> BreakdownRow(calls, pf[i], prices[i])]

TotalWithOptions(stock_value, cash, options_value) == stock_value + cash + options_value

\* line 581: total_value = stock_value + cash_balance
TotalValue(stock_value, cash, options_value) == stock_value + cash

\* prices[i]: what get_current_stock_price returns for the i-th position
calculate_portfolio_value(pf, calls, cash, prices) ==
    LET portfolio_breakdown == Breakdown(pf, calls, prices)
        stock_value == SumOf(portfolio_breakdown, "current_value")
        options_value == SumOf([i \in 1..Len(calls) |->
                                   [v |-> PremiumCollected(calls[i].premium)]], "v")
    IN  [raised |-> \E i \in 1..Len(portfolio_breakdown) : portfolio_breakdown[i].raises,
         total_value |-> TotalValue(stock_value, cash, options_value),
         stock_value |-> stock_value,
         cash_value |-> cash,
         options_value |-> options_value,
         portfolio_breakdown |-> portfolio_breakdown]

\* --------------------------------------------------------------- handlers
\* What every handler leaves behind: the request and its message box.
Shown(op, req, msg) ==
    /\ lastOp' = [op |-> op, req |-> req, msg |-> msg, notes |-> <<>>]
    /\ nops' = nops + 1
    /\ pc' = "returning"
    /\ UNCHANGED <<today, past3pm>>

\* An early return after messagebox.showerror.
Refused(op, req, msg) ==
    /\ lastOp' = [op |-> op, req |-> req, msg |-> msg, notes |-> <<>>]
    /\ pc' = "returning"
    /\ UNCHANGED <<ledger, files, today, past3pm, nops>>

InMainloop == pc = "mainloop" /\ nops < MaxOps

BoughtWithNewDate(pf, ticker, shares, purchase_price, purchase_date) ==
    Put(pf, [k |-> ticker,
             shares |-> (IF Has(pf, ticker) THEN Get(pf, ticker).shares ELSE 0) + shares,
             purchase_price |-> FracInt(purchase_price),
             purchase_date |-> purchase_date])

BoughtAtMidPrice(pf, ticker, shares, purchase_price, purchase_date) ==
    IF Has(pf, ticker)
    THEN Put(pf, [Get(pf, ticker) EXCEPT
                    !.shares = @ + shares,
                    !.purchase_price = FracDivInt(FracAdd(@, FracInt(purchase_price)), 2)])
    ELSE Put(pf, [k |-> ticker, shares |-> shares,
                  purchase_price |-> FracInt(purchase_price),
                  purchase_date |-> purchase_date])

\* lines 730-745: the position after a purchase
BoughtPosition(pf, ticker, shares, purchase_price, purchase_date) ==
    IF Has(pf, ticker)
    THEN LET existing_shares == Get(pf, ticker).shares
             existing_cost == FracMul(Get(pf, ticker).purchase_price, FracInt(existing_shares))
             new_cost == FracInt(purchase_price * shares)
             total_shares == existing_shares + shares
             avg_price == FracDivInt(FracAdd(existing_cost, new_cost), total_shares)
         IN  Put(pf, [Get(pf, ticker) EXCEPT !.shares = total_shares,
                                             !.purchase_price = avg_price])
    ELSE Put(pf, [k |-> ticker, shares |-> shares,
                  purchase_price |-> FracInt(purchase_price),
                  purchase_date |-> purchase_date])

FundsNotAbove(total_cost, cash) == total_cost >= cash

\* line 710: the purchase costs more than the cash at hand
InsufficientFunds(total_cost, cash) == total_cost > cash

add_stock_to_portfolio(ticker, shares, purchase_price, purchase_date) ==
    LET req == [ticker |-> ticker, shares |-> shares, price |-> purchase_price,
                date |-> purchase_date]
        total_cost == shares * purchase_price
    IN
    /\ InMainloop
    /\ UNCHANGED <<covered_calls, dividends>>
    /\ IF ticker = "" \/ shares <= 0 \/ purchase_price <= 0
       THEN Refused("buy", req, "Please enter valid values")
       ELSE IF InsufficientFunds(total_cost, cash_balance)
       THEN Refused("buy", req, "Insufficient Funds")
       ELSE IF ~Parsable(purchase_date)
       THEN Refused("buy", req, "Date must be in YYYY-MM-DD format")
       ELSE /\ cash_balance' = cash_balance - total_cost
            /\ portfolio' = BoughtPosition(portfolio, ticker, shares, purchase_price,
                                           purchase_date)
            /\ files' = [files EXCEPT !.cash = cash_balance',
                                      !.portfolio = save_portfolio_data(portfolio')]
            /\ Shown("buy", req, "Purchase Successful")

\* lines 807-811: the portfolio after a sale
SoldPosition(pf, ticker, shares_to_remove) ==
    IF shares_to_remove >= Get(pf, ticker).shares
    THEN Del(pf, ticker)
    ELSE Put(pf, [Get(pf, ticker) EXCEPT !.shares = @ - shares_to_remove])

SellExceedsTotal(pf, calls, ticker, shares_to_remove) ==
    shares_to_remove > Get(pf, ticker).shares

\* lines 780-791: the request asks for more than the available shares
SellExceedsAvailable(pf, calls, ticker, shares_to_remove) ==
    shares_to_remove > get_available_shares(pf, calls, ticker)

PriceNegative(current_price) == current_price < 0

\* lines 794-797: get_current_stock_price answered 0
PriceUnavailable(current_price) == current_price = 0

remove_stock_from_portfolio(ticker, shares_to_remove, current_price) ==
    LET req(fetched) == [ticker |-> ticker, shares |-> shares_to_remove, price |-> fetched] IN
    /\ InMainloop
    /\ UNCHANGED <<covered_calls, dividends>>
    /\ IF ~Has(portfolio, ticker)
       THEN Refused("sell", req(0), "not found in portfolio")
       ELSE IF SellExceedsAvailable(portfolio, covered_calls, ticker, shares_to_remove)
       THEN Refused("sell", req(0), "Cannot sell")
       ELSE IF PriceUnavailable(current_price)
       THEN Refused("sell", req(0), "Could not get current price")
       ELSE LET sale_proceeds == shares_to_remove * current_price IN
            /\ cash_balance' = cash_balance + sale_proceeds
            /\ portfolio' = SoldPosition(portfolio, ticker, shares_to_remove)
            /\ files' = [files EXCEPT !.cash = cash_balance',
                                      !.portfolio = save_portfolio_data(portfolio')]
            /\ Shown("sell", req(current_price), "Stock Sold")

add_cash(amount) ==
    /\ InMainloop
    /\ UNCHANGED <<portfolio, covered_calls, dividends>>
    /\ IF amount <= 0
       THEN Refused("add_cash", [amount |-> amount], "Please enter a positive amount")
       ELSE /\ cash_balance' = cash_balance + amount
            /\ files' = [files EXCEPT !.cash = cash_balance']
            /\ Shown("add_cash", [amount |-> amount], "")

remove_cash(amount) ==
    /\ InMainloop
    /\ UNCHANGED <<portfolio, covered_calls, dividends>>
    /\ IF amount <= 0
       THEN Refused("remove_cash", [amount |-> amount], "Please enter a positive amount")
       ELSE IF amount > cash_balance
       THEN Refused("remove_cash", [amount |-> amount], "Insufficient cash balance")
       ELSE /\ cash_balance' = cash_balance - amount
            /\ files' = [files EXCEPT !.cash = cash_balance']
            /\ Shown("remove_cash", [amount |-> amount], "")

CallNeedsOneShare(pf, calls, ticker) == get_available_shares(pf, calls, ticker) < 1

CallNotCoveredByTotal(pf, calls, ticker) ==
    ~Has(pf, ticker) \/ Get(pf, ticker).shares < LotSize

\* lines 844-856: fewer than 100 available shares
CallNotCovered(pf, calls, ticker) == get_available_shares(pf, calls, ticker) < LotSize

\* lines 871-880: call_id = f"call_{len(covered_calls)}"; covered_calls[call_id] = {...}
WrittenCall(calls, ticker, exp_date, strike_price, premium) ==
    Put(calls, [k |-> Len(calls), ticker |-> ticker, exp_date |-> exp_date,
                strike_price |-> strike_price, premium |-> premium])

add_covered_call(ticker, exp_date, strike_price, premium) ==
    LET req == [ticker |-> ticker, exp_date |-> exp_date, strike_price |-> strike_price,
                premium |-> premium]
    IN
    /\ InMainloop
    /\ UNCHANGED <<portfolio, dividends>>
    /\ IF ticker = "" \/ strike_price <= 0 \/ premium <= 0
       THEN Refused("open_call", req, "Please enter valid values")
       ELSE IF CallNotCovered(portfolio, covered_calls, ticker)
       THEN Refused("open_call", req, "Need at least 100 available shares")
       ELSE IF ~Parsable(exp_date)
       THEN Refused("open_call", req, "Date must be in YYYY-MM-DD format")
       ELSE /\ cash_balance' = cash_balance + PremiumCollected(premium)
            /\ covered_calls' = WrittenCall(covered_calls, ticker, exp_date, strike_price,
                                            premium)
            /\ files' = [files EXCEPT !.cash = cash_balance',
                                      !.covered_calls = save_covered_calls_data(covered_calls')]
            /\ Shown("open_call", req, "Success")

CalledAwayNotDebited(pf, ticker) == pf

CalledAwayKept(pf, ticker) ==
    Put(pf, [Get(pf, ticker) EXCEPT !.shares = @ - LotSize])

\* lines 254-258 and 920-923: 100 shares leave the position
CalledAway(pf, ticker) ==
    LET left == Get(pf, ticker).shares - LotSize IN
    IF left <= 0 THEN Del(pf, ticker)
    ELSE Put(pf, [Get(pf, ticker) EXCEPT !.shares = left])

NoPosition(pf, ticker) == ~Has(pf, ticker)

\* line 915: the ticker has no position or fewer than 100 shares
NotEnoughShares(pf, ticker) == ~Has(pf, ticker) \/ Get(pf, ticker).shares < LotSize

\* index: the selected row of the listbox, 0 when nothing is selected
manual_call_away(index) ==
    /\ InMainloop
    /\ UNCHANGED dividends
    /\ IF index = 0
       THEN Refused("exercise", [index |-> 0], "Please select a covered call to exercise")
       ELSE LET call_data == covered_calls[index]
                ticker == call_data.ticker
                strike_price == call_data.strike_price
                req == [index |-> index, ticker |-> ticker, strike_price |-> strike_price]
            IN
            IF NotEnoughShares(portfolio, ticker)
            THEN Refused("exercise", req, "Not enough shares")
            ELSE /\ portfolio' = CalledAway(portfolio, ticker)
                 /\ cash_balance' = cash_balance + strike_price * LotSize
                 /\ covered_calls' = Del(covered_calls, call_data.k)
                 /\ files' = [files EXCEPT
                                !.covered_calls = save_covered_calls_data(covered_calls'),
                                !.portfolio = save_portfolio_data(portfolio'),
                                !.cash = cash_balance']
                 /\ Shown("exercise", req, "Stock Called Away")

ClosedCallsOfTicker(calls, index) ==
    SelectSeq(calls, LAMBDA c : c.ticker # calls[index].ticker)

\* lines 953-955: call_id = list(covered_calls.keys())[index]; del covered_calls[call_id]
ClosedCall(calls, index) == Del(calls, calls[index].k)

remove_covered_call(index) ==
    /\ InMainloop
    /\ UNCHANGED <<portfolio, dividends, cash_balance>>
    /\ IF index = 0
       THEN Refused("close_call", [index |-> 0], "Please select a covered call to remove")
       ELSE /\ covered_calls' = ClosedCall(covered_calls, index)
            /\ files' = [files EXCEPT
                           !.covered_calls = save_covered_calls_data(covered_calls')]
            /\ Shown("close_call", [index |-> index], "")

PaymentBeforeEx(ex_div_date, payment_date) == payment_date < ex_div_date

\* lines 984-990: pay_date_obj <= ex_date_obj
PaymentNotAfterEx(ex_div_date, payment_date) == payment_date <= ex_div_date

add_dividend(ticker, ex_div_date, payment_date, dividend_per_share) ==
    LET req == [ticker |-> ticker, ex_div_date |-> ex_div_date,
                payment_date |-> payment_date, dividend_per_share |-> dividend_per_share]
    IN
    /\ InMainloop
    /\ UNCHANGED <<portfolio, covered_calls, cash_balance>>
    /\ IF ticker = "" \/ dividend_per_share <= 0
       THEN Refused("add_dividend", req, "Please enter valid values")
       ELSE IF ~Parsable(ex_div_date) \/ ~Parsable(payment_date)
       THEN Refused("add_dividend", req, "Dates must be in YYYY-MM-DD format")
       ELSE IF PaymentNotAfterEx(ex_div_date, payment_date)
       THEN Refused("add_dividend", req, "Payment date must be after ex-dividend date")
       ELSE /\ dividends' = Put(dividends,
                                [k |-> Len(dividends), ticker |-> ticker,
                                 ex_div_date |-> ex_div_date, payment_date |-> payment_date,
                                 dividend_per_share |-> dividend_per_share,
                                 status |-> "pending"])
            /\ files' = [files EXCEPT !.dividends = save_dividends_data(dividends')]
            /\ Shown("add_dividend", req, "Success")

remove_dividend(index) ==
    /\ InMainloop
    /\ UNCHANGED <<portfolio, covered_calls, cash_balance>>
    /\ IF index = 0
       THEN Refused("remove_dividend", [index |-> 0], "Please select a dividend to remove")
       ELSE /\ dividends' = Del(dividends, dividends[index].k)
            /\ files' = [files EXCEPT !.dividends = save_dividends_data(dividends')]
            /\ Shown("remove_dividend", [index |-> index], "")

\* ------------------------------------------------------------------ sweeps
\* What a start-up sweep leaves behind: its notices (the message box lines).
Swept(op, notes, next) ==
    /\ lastOp' = [op |-> op, req |-> <<>>, msg |-> "", notes |-> notes]
    /\ pc' = next
    /\ UNCHANGED <<today, past3pm, nops>>

DueOnDate(exp_date, day, after3pm) == day >= exp_date

\* line 244: current_time >= exp_datetime, 15:00 on the expiration date
Due(exp_date, day, after3pm) == day > exp_date \/ (day = exp_date /\ after3pm)

AboveMargin(current_price, strike_price) == current_price > strike_price + ExerciseMargin

AtOrAboveStrike(current_price, strike_price) == current_price >= strike_price

\* line 252: the option is in the money
InTheMoney(current_price, strike_price) == current_price >= strike_price + ExerciseMargin

PositionToCall(pf, ticker) == Has(pf, ticker)

\* line 254: the position can deliver the 100 shares of the contract
SharesToCall(pf, ticker) == Has(pf, ticker) /\ Get(pf, ticker).shares >= LotSize

ExpiredKept(st, call_data) == st

\* lines 271-276: the option expired worthless and is removed
ExpiredWorthless(st, call_data) == [st EXCEPT !.calls = Del(@, call_data.k)]

\* lines 238-281: one turn of the loop; st holds portfolio, covered_calls,
\* cash_balance and expired_calls
ExpiryStep(st, call_data, current_price, day, after3pm) ==
    LET ticker == call_data.ticker
        strike_price == call_data.strike_price
        removed == Del(st.calls, call_data.k)
        note(kind) == [kind |-> kind, ticker |-> ticker, strike_price |-> strike_price]
    IN
    IF ~Parsable(call_data.exp_date)
    THEN [st EXCEPT !.calls = removed, !.notes = Append(@, note("INVALID"))]
    ELSE IF ~Due(call_data.exp_date, day, after3pm)
    THEN st
    ELSE IF InTheMoney(current_price, strike_price)
    THEN IF SharesToCall(st.pf, ticker)
         THEN [pf |-> CalledAway(st.pf, ticker),
               cash |-> st.cash + strike_price * LotSize,
               calls |-> removed,
               notes |-> Append(st.notes, note("EXERCISED"))]
         ELSE [st EXCEPT !.calls = removed, !.notes = Append(@, note("ERROR"))]
    ELSE [ExpiredWorthless(st, call_data) EXCEPT !.notes = Append(@, note("EXPIRED"))]

RECURSIVE ExpiryLoop(_, _, _, _, _, _)
ExpiryLoop(st, items, prices, i, day, after3pm) ==
    IF i > Len(items) THEN st
    ELSE ExpiryLoop(ExpiryStep(st, items[i], prices[i], day, after3pm),
                    items, prices, i + 1, day, after3pm)

\* prices[i]: what get_current_stock_price returns for the i-th contract
check_expired_options(prices) ==
    LET st == ExpiryLoop([pf |-> portfolio, calls |-> covered_calls,
                          cash |-> cash_balance, notes |-> <<>>],
                         covered_calls, prices, 1, today, past3pm)
    IN
    /\ pc = "expiry"
    /\ portfolio' = st.pf
    /\ covered_calls' = st.calls
    /\ cash_balance' = st.cash
    /\ UNCHANGED dividends
    /\ files' = IF st.notes # <<>>
                THEN [files EXCEPT !.covered_calls = save_covered_calls_data(covered_calls'),
                                   !.portfolio = save_portfolio_data(portfolio'),
                                   !.cash = cash_balance']
                ELSE files
    /\ Swept("expiry", st.notes, "historical")

TrackedSameDay(divs, ticker, div_date) ==
    \E i \in 1..Len(divs) : divs[i].ticker = ticker /\ divs[i].ex_div_date = div_date

\* lines 478-493: a tracked dividend of the ticker lies within 5 days
TrackedNear(divs, ticker, div_date) ==
    \E i \in 1..Len(divs) :
        /\ divs[i].ticker = ticker
        /\ Abs(divs[i].ex_div_date - div_date) <= DedupTolerance

WholeHistory(div_date, day) == TRUE

\* lines 457 and 462-464: the rows of the last 180 days
InHistoryWindow(div_date, day) == div_date >= day - HistoryWindow

\* lines 466-520: one row of the dividend history; st holds dividends,
\* cash_balance and historical_payments
HistoricalStep(st, position, row, day) ==
    LET ticker == position.k
        div_date == row.date
        div_amount == row.amount
    IN
    IF /\ InHistoryWindow(div_date, day)
       /\ position.purchase_date < div_date
       /\ div_date <= day
       /\ ~TrackedNear(st.divs, ticker, div_date)
    THEN LET shares_owned == position.shares
             total_dividend == shares_owned * div_amount
         IN  [divs |-> Put(st.divs,
                           [k |-> Len(st.divs), ticker |-> ticker,
                            ex_div_date |-> div_date - EstimatedExLead,
                            payment_date |-> div_date,
                            dividend_per_share |-> div_amount, status |-> "paid"]),
              cash |-> st.cash + total_dividend,
              notes |-> Append(st.notes, [kind |-> "credited", ticker |-> ticker,
                                          shares |-> shares_owned,
                                          dividend_per_share |-> div_amount])]
    ELSE st

RECURSIVE HistoricalRows(_, _, _, _, _)
HistoricalRows(st, position, rows, j, day) ==
    IF j > Len(rows) THEN st
    ELSE HistoricalRows(HistoricalStep(st, position, rows[j], day),
                        position, rows, j + 1, day)

RECURSIVE HistoricalLoop(_, _, _, _, _)
HistoricalLoop(st, pf, history, i, day) ==
    IF i > Len(pf) THEN st
    ELSE HistoricalLoop(IF history[i].ok
                        THEN HistoricalRows(st, pf[i], history[i].rows, 1, day)
                        ELSE st,
                        pf, history, i + 1, day)

\* history[i]: what the provider returns for the i-th ticker of the portfolio
check_historical_dividends(history) ==
    LET st == HistoricalLoop([divs |-> dividends, cash |-> cash_balance, notes |-> <<>>],
                             portfolio, history, 1, today)
    IN
    /\ pc = "historical"
    /\ dividends' = st.divs
    /\ cash_balance' = st.cash
    /\ UNCHANGED <<portfolio, covered_calls>>
    /\ files' = IF st.notes # <<>>
                THEN [files EXCEPT !.dividends = save_dividends_data(dividends'),
                                   !.cash = cash_balance']
                ELSE files
    /\ Swept("historical", st.notes, "upcoming")

NotTracked(divs, ticker, ex_div_date) == FALSE

\* lines 411-418: the same ticker and ex-dividend date are tracked
TrackedExact(divs, ticker, ex_div_date) ==
    \E i \in 1..Len(divs) : divs[i].ticker = ticker /\ divs[i].ex_div_date = ex_div_date

\* lines 388-432: one ticker; st holds dividends and new_dividends_found
UpcomingStep(st, ticker, info, day) ==
    IF info.ok /\ info.exDividendDate # 0 /\ info.dividendRate # 0
    THEN LET ex_div_date == info.exDividendDate
             quarterly_dividend == info.dividendRate \div 4
             payment_date == ex_div_date + EstimatedPayLag
         IN  IF ~TrackedExact(st.divs, ticker, ex_div_date) /\ ex_div_date >= day
             THEN [divs |-> Put(st.divs,
                                [k |-> Len(st.divs), ticker |-> ticker,
                                 ex_div_date |-> ex_div_date,
                                 payment_date |-> payment_date,
                                 dividend_per_share |-> quarterly_dividend,
                                 status |-> "pending"]),
                   notes |-> Append(st.notes, [kind |-> "detected", ticker |-> ticker,
                                               ex_div_date |-> ex_div_date])]
             ELSE st
    ELSE st

RECURSIVE UpcomingLoop(_, _, _, _, _)
UpcomingLoop(st, pf, infos, i, day) ==
    IF i > Len(pf) THEN st
    ELSE UpcomingLoop(UpcomingStep(st, pf[i].k, infos[i], day), pf, infos, i + 1, day)

\* infos[i]: what the provider returns for the i-th ticker of the portfolio
fetch_upcoming_dividends(infos) ==
    LET st == UpcomingLoop([divs |-> dividends, notes |-> <<>>], portfolio, infos, 1, today)
    IN
    /\ pc = "upcoming"
    /\ dividends' = st.divs
    /\ UNCHANGED <<portfolio, covered_calls, cash_balance>>
    /\ files' = IF st.notes # <<>>
                THEN [files EXCEPT !.dividends = save_dividends_data(dividends')]
                ELSE files
    /\ Swept("upcoming", st.notes, "payments")

OwnedOnOrBefore(purchase_date, ex_div_date) == purchase_date <= ex_div_date

\* line 320: the position was bought before the ex-dividend date
OwnedBefore(purchase_date, ex_div_date) == purchase_date < ex_div_date

DividendOfOneShare(shares_owned, dividend_per_share) == dividend_per_share

\* line 323: total_dividend
TotalDividend(shares_owned, dividend_per_share) == shares_owned * dividend_per_share

\* lines 301-352: one turn of the loop; st holds dividends, cash_balance and
\* dividend_payments
PaymentStep(st, pf, div_data, day) ==
    LET ticker == div_data.ticker
        dividend_per_share == div_data.dividend_per_share
        mark(status) == Put(st.divs, [div_data EXCEPT !.status = status])
    IN
    IF ~Parsable(div_data.ex_div_date) \/ ~Parsable(div_data.payment_date)
    THEN [st EXCEPT !.divs = Del(@, div_data.k),
                    !.notes = Append(@, [kind |-> "invalid", ticker |-> ticker,
                                         shares |-> 0, dividend_per_share |-> 0])]
    ELSE IF day >= div_data.payment_date /\ div_data.status = "pending"
    THEN IF Has(pf, ticker)
         THEN IF OwnedBefore(Get(pf, ticker).purchase_date, div_data.ex_div_date)
              THEN LET shares_owned == Get(pf, ticker).shares
                       total_dividend == TotalDividend(shares_owned, dividend_per_share)
                   IN  [divs |-> mark("paid"),
                        cash |-> st.cash + total_dividend,
                        notes |-> Append(st.notes,
                                         [kind |-> "received", ticker |-> ticker,
                                          shares |-> shares_owned,
                                          dividend_per_share |-> dividend_per_share])]
              ELSE [st EXCEPT !.divs = mark("ineligible"),
                              !.notes = Append(@, [kind |-> "purchased after", ticker |-> ticker,
                                                   shares |-> 0, dividend_per_share |-> 0])]
         ELSE [st EXCEPT !.divs = mark("ineligible"),
                         !.notes = Append(@, [kind |-> "no shares", ticker |-> ticker,
                                              shares |-> 0, dividend_per_share |-> 0])]
    ELSE st

RECURSIVE PaymentLoop(_, _, _, _, _)
PaymentLoop(st, pf, items, i, day) ==
    IF i > Len(items) THEN st
    ELSE PaymentLoop(PaymentStep(st, pf, items[i], day), pf, items, i + 1, day)

check_dividend_payments ==
    LET st == PaymentLoop([divs |-> dividends, cash |-> cash_balance, notes |-> <<>>],
                          portfolio, dividends, 1, today)
    IN
    /\ pc = "payments"
    /\ dividends' = st.divs
    /\ cash_balance' = st.cash
    /\ UNCHANGED <<portfolio, covered_calls>>
    /\ files' = IF st.notes # <<>>
                THEN [files EXCEPT !.dividends = save_dividends_data(dividends'),
                                   !.cash = cash_balance']
                ELSE files
    /\ Swept("payments", st.notes, "returning")

\* ---------------------------------------------------------------- launches
\* lines 1351-1355: the window is closed and the program started again, at a
\* later (or the same) time; the sweeps of lines 1358-1361 follow
Relaunch(day, after3pm) ==
    /\ InMainloop
    /\ day > today \/ (day = today /\ (past3pm => after3pm))
    /\ portfolio' = load_portfolio_data(files.portfolio)
    /\ covered_calls' = load_covered_calls_data(files.covered_calls)
    /\ dividends' = load_dividends_data(files.dividends)
    /\ cash_balance' = files.cash
    /\ today' = day
    /\ past3pm' = after3pm
    /\ pc' = "expiry"
    /\ lastOp' = [op |-> "launch", req |-> <<>>, msg |-> "", notes |-> <<>>]
    /\ nops' = nops + 1
    /\ UNCHANGED files

\* line 1367: control is back in root.mainloop(), the message box dismissed
Idle == [op |-> "idle", req |-> <<>>, msg |-> "", notes |-> <<>>]
root_mainloop ==
    /\ pc = "returning"
    /\ pc' = "mainloop"
    /\ lastOp' = Idle
    /\ UNCHANGED <<ledger, files, today, past3pm, nops>>

\* The first launch: no file but possibly cash.txt exists.
StartFiles(cash) ==
    [portfolio |-> <<>>, covered_calls |-> <<>>, dividends |-> <<>>, cash |-> cash]

Init ==
    /\ \E cash \in InitialCash : files = StartFiles(cash)
    /\ portfolio = load_portfolio_data(files.portfolio)
    /\ covered_calls = load_covered_calls_data(files.covered_calls)
    /\ dividends = load_dividends_data(files.dividends)
    /\ cash_balance = files.cash
    /\ today = FirstDay
    /\ past3pm = FALSE
    /\ pc = "expiry"
    /\ lastOp = [op |-> "launch", req |-> <<>>, msg |-> "", notes |-> <<>>]
    /\ nops = 0
    /\ scen = [step |-> "off"]

Buy == \E t \in Tickers, r \in BuyInputs :
           add_stock_to_portfolio(t, r.shares, r.price, r.date) /\ UNCHANGED scen
Sell == \E t \in Tickers, n \in SellInputs, p \in SellPrices :
            remove_stock_from_portfolio(t, n, p) /\ UNCHANGED scen
AddCash == \E a \in CashInputs : add_cash(a) /\ UNCHANGED scen
RemoveCash == \E a \in CashInputs \cup {cash_balance, cash_balance + 1} :
                  remove_cash(a) /\ UNCHANGED scen
OpenCall == \E t \in Tickers, r \in CallInputs :
                add_covered_call(t, r.exp_date, r.strike_price, r.premium) /\ UNCHANGED scen
Exercise == \E i \in 0..Len(covered_calls) : manual_call_away(i) /\ UNCHANGED scen
CloseCall == \E i \in 0..Len(covered_calls) : remove_covered_call(i) /\ UNCHANGED scen
AddDividend == \E t \in Tickers, r \in DividendRequests :
                   /\ add_dividend(t, r.ex_div_date, r.payment_date, r.dividend_per_share)
                   /\ UNCHANGED scen
RemoveDividend == \E i \in 0..Len(dividends) : remove_dividend(i) /\ UNCHANGED scen
Launch == \E day \in ClockDays, after3pm \in BOOLEAN :
              Relaunch(day, after3pm) /\ UNCHANGED scen
ExpirySweep == \E prices \in [1..Len(covered_calls) -> ExpiryPrices] :
                   check_expired_options(prices) /\ UNCHANGED scen
HistoricalSweep == \E history \in [1..Len(portfolio) -> HistoryInputs] :
                       check_historical_dividends(history) /\ UNCHANGED scen
UpcomingSweep == \E infos \in [1..Len(portfolio) -> InfoInputs] :
                     fetch_upcoming_dividends(infos) /\ UNCHANGED scen
PaymentSweep == check_dividend_payments /\ UNCHANGED scen
Return == root_mainloop /\ UNCHANGED scen

Next ==
    \/ Buy
    \/ Sell
    \/ AddCash
    \/ RemoveCash
    \/ OpenCall
    \/ Exercise
    \/ CloseCall
    \/ AddDividend
    \/ RemoveDividend
    \/ Launch
    \/ ExpirySweep
    \/ HistoricalSweep
    \/ UpcomingSweep
    \/ PaymentSweep
    \/ Return

Spec == Init /\ [][Next]_vars

\* ---------------------------------------------------------------- scenario
\* The end-to-end run of the specification's section 8: from cash C and no
\* position, buy 100 shares at p, write one call (strike K, premium m), close
\* the program and start it again after the contract's cutoff, and let the
\* expiry sweep see a price of at least K + 0.01; the three dividend sweeps of
\* the launch follow it.
ScenarioInputs ==
    {r \in [C : {5000000, 10000000}, p : {40000, 50000}, K : {45000, 60000},
            m : {1000, 2000}, t : Tickers, exp : ClockDays] : 100 * r.p <= r.C}

ScenarioInit ==
    /\ \E r \in ScenarioInputs :
           /\ scen = [step |-> "start", in |-> r]
           /\ files = StartFiles(r.C)
    /\ portfolio = load_portfolio_data(files.portfolio)
    /\ covered_calls = load_covered_calls_data(files.covered_calls)
    /\ dividends = load_dividends_data(files.dividends)
    /\ cash_balance = files.cash
    /\ today = FirstDay
    /\ past3pm = FALSE
    /\ pc = "mainloop"
    /\ lastOp = Idle
    /\ nops = 0

ScenarioStep(from, to) == scen.step = from /\ scen' = [scen EXCEPT !.step = to]

ScenarioBuy ==
    /\ ScenarioStep("start", "bought")
    /\ \E d \in {FirstDay - 1, LastDay} : add_stock_to_portfolio(scen.in.t, 100, scen.in.p, d)
ScenarioOpen ==
    /\ ScenarioStep("bought", "opened")
    /\ add_covered_call(scen.in.t, scen.in.exp, scen.in.K, scen.in.m)
ScenarioLaunch ==
    /\ ScenarioStep("opened", "launched")
    /\ \E day \in ClockDays, after3pm \in BOOLEAN :
           Due(scen.in.exp, day, after3pm) /\ Relaunch(day, after3pm)
ScenarioSweep ==
    /\ ScenarioStep("launched", "swept")
    /\ \E price \in {scen.in.K + ExerciseMargin, scen.in.K + 5000} :
           check_expired_options(<<price>>)
ScenarioReturn == root_mainloop /\ UNCHANGED scen

ScenarioNext ==
    \/ ScenarioBuy
    \/ ScenarioOpen
    \/ ScenarioLaunch
    \/ ScenarioSweep
    \/ HistoricalSweep
    \/ UpcomingSweep
    \/ PaymentSweep
    \/ ScenarioReturn

ScenarioSpec == ScenarioInit /\ [][ScenarioNext]_vars

\* ------------------------------------------------------------------ stores
\* The four files as a launch may find them: well-formed lines the program
\* wrote in an earlier session or that were put there by hand.  A store may
\* hold a contract its position does not cover.
StorePositions ==
    LET line(t, n) == [ticker |-> t, shares |-> n, purchase_price |-> FracInt(50000),
                       purchase_date |-> FirstDay - 3]
    IN  {<<>>, <<line("AAPL", 50)>>, <<line("AAPL", 200)>>,
         <<line("AAPL", 50), line("MSFT", 100)>>,
         <<line("AAPL", 200), line("MSFT", 100)>>}
StoreCallLines ==
    {[ticker |-> "AAPL", exp_date |-> FirstDay, strike_price |-> 60000, premium |-> 2000],
     [ticker |-> "MSFT", exp_date |-> LastDay + 1, strike_price |-> 60000, premium |-> 2000]}
StoreDividendLines ==
    {[ticker |-> "AAPL", ex_div_date |-> FirstDay - 10, payment_date |-> FirstDay - 9,
      dividend_per_share |-> 500, status |-> "paid"],
     [ticker |-> "AAPL", ex_div_date |-> FirstDay - 2, payment_date |-> FirstDay - 1,
      dividend_per_share |-> 500, status |-> "pending"]}
UpToTwo(lines) == {<<>>} \cup {<<a>> : a \in lines} \cup {<<a, b>> : a, b \in lines}
Stores ==
    [portfolio : StorePositions, covered_calls : UpToTwo(StoreCallLines),
     dividends : UpToTwo(StoreDividendLines), cash : {5000000}]

\* lines 1351-1355 on a store: the first launch of a session
Loaded(store) ==
    /\ files = store
    /\ portfolio = load_portfolio_data(files.portfolio)
    /\ covered_calls = load_covered_calls_data(files.covered_calls)
    /\ dividends = load_dividends_data(files.dividends)
    /\ cash_balance = files.cash
    /\ pc = "expiry"
    /\ lastOp = [op |-> "launch", req |-> <<>>, msg |-> "", notes |-> <<>>]
    /\ nops = 0

\* The stores of the sessions: at least one contract, no dividend or two.
SessionStores ==
    {store \in Stores : /\ store.portfolio # <<>>
                        /\ store.covered_calls # <<>>
                        /\ Len(store.dividends) # 1}

StoreInit ==
    /\ \E store \in SessionStores : Loaded(store)
    /\ today = FirstDay
    /\ past3pm = FALSE
    /\ scen = [step |-> "store"]

\* The sweeps of a launch during which the provider does not answer.
StoreExpirySweep ==
    /\ check_expired_options([i \in 1..Len(covered_calls) |-> 0])
    /\ UNCHANGED scen
StoreHistoricalSweep ==
    /\ check_historical_dividends([i \in 1..Len(portfolio) |-> [ok |-> FALSE, rows |-> <<>>]])
    /\ UNCHANGED scen
StoreUpcomingSweep ==
    /\ fetch_upcoming_dividends([i \in 1..Len(portfolio) |->
                                    [ok |-> FALSE, exDividendDate |-> 0, dividendRate |-> 0]])
    /\ UNCHANGED scen

\* The requests of a session on a store: the buttons that work on contracts
\* and dividends, with well-formed entries.
StoreOpenCall ==
    /\ \E t \in Tickers : add_covered_call(t, LastDay + 1, 60000, 2000)
    /\ UNCHANGED scen
StoreAddDividend ==
    /\ add_dividend("AAPL", LastDay + 1, LastDay + 2, 500)
    /\ UNCHANGED scen

StoreNext ==
    \/ StoreExpirySweep
    \/ StoreHistoricalSweep
    \/ StoreUpcomingSweep
    \/ PaymentSweep
    \/ Return
    \/ StoreOpenCall
    \/ Exercise
    \/ CloseCall
    \/ StoreAddDividend
    \/ RemoveDividend

StoreSpec == StoreInit /\ [][StoreNext]_vars

\* ------------------------------------------------------------ two launches
\* A launch on a store and, with the clock and the provider's answers as they
\* were, a second launch right after it.  scen.market holds the answers,
\* scen.noticed the kinds of notice the first launch produced.
\* yf.Ticker(t).info as InfoInputs has it, and with an ex-dividend date of
\* today or of yesterday, without a date, without a rate
DiscoveryInfos ==
    InfoInputs
    \cup {[ok |-> TRUE, exDividendDate |-> d, dividendRate |-> 2000] :
             d \in {0, FirstDay - 1, FirstDay}}
    \cup {[ok |-> TRUE, exDividendDate |-> LastDay, dividendRate |-> 0]}
Markets == [price : ExpiryPrices, history : HistoryInputs, info : DiscoveryInfos]

TwiceInit ==
    /\ \E store \in Stores : Loaded(store)
    /\ today = FirstDay
    /\ past3pm \in BOOLEAN
    /\ \E market \in Markets : scen = [step |-> "first", market |-> market, noticed |-> {}]

TwiceNoticed ==
    scen' = [scen EXCEPT !.noticed = @ \cup {lastOp'.notes[i].kind : i \in 1..Len(lastOp'.notes)}]

TwiceExpirySweep ==
    /\ check_expired_options([i \in 1..Len(covered_calls) |-> scen.market.price])
    /\ TwiceNoticed
TwiceHistoricalSweep ==
    /\ check_historical_dividends([i \in 1..Len(portfolio) |-> scen.market.history])
    /\ TwiceNoticed
TwiceUpcomingSweep ==
    /\ fetch_upcoming_dividends([i \in 1..Len(portfolio) |-> scen.market.info])
    /\ TwiceNoticed
TwicePaymentSweep == check_dividend_payments /\ TwiceNoticed
TwiceReturn == root_mainloop /\ UNCHANGED scen
TwiceLaunch ==
    /\ scen.step = "first"
    /\ scen' = [scen EXCEPT !.step = "second"]
    /\ Relaunch(today, past3pm)

TwiceNext ==
    \/ TwiceExpirySweep
    \/ TwiceHistoricalSweep
    \/ TwiceUpcomingSweep
    \/ TwicePaymentSweep
    \/ TwiceReturn
    \/ TwiceLaunch

TwiceSpec == TwiceInit /\ [][TwiceNext]_vars

\* ------------------------------------------------------------ interruptions
\* A handler whose run ends between two of its statements (the process is
\* ended while the callback runs): what it assigned and wrote so far stays,
\* no handler undoes its earlier writes, and the next launch loads the files.
Stopped(op, req) ==
    /\ lastOp' = [op |-> op, req |-> req, msg |-> "stopped", notes |-> <<>>]
    /\ nops' = nops + 1
    /\ pc' = "stopped"
    /\ UNCHANGED <<today, past3pm>>

\* lines 696-728: the purchase up to save_cash_balance, before the position
\* is touched (lines 730-745) and saved (line 747)
add_stock_to_portfolio_stopped(ticker, shares, purchase_price, purchase_date) ==
    LET req == [ticker |-> ticker, shares |-> shares, price |-> purchase_price,
                date |-> purchase_date]
        total_cost == shares * purchase_price
    IN
    /\ InMainloop
    /\ ~(ticker = "" \/ shares <= 0 \/ purchase_price <= 0)
    /\ ~InsufficientFunds(total_cost, cash_balance)
    /\ Parsable(purchase_date)
    /\ cash_balance' = cash_balance - total_cost
    /\ files' = [files EXCEPT !.cash = cash_balance']
    /\ UNCHANGED <<portfolio, covered_calls, dividends>>
    /\ Stopped("buy", req)

\* lines 773-805: the sale up to save_cash_balance, before the shares leave
\* the position (lines 808-811) and the portfolio is saved (line 813)
remove_stock_from_portfolio_stopped(ticker, shares_to_remove, current_price) ==
    LET req == [ticker |-> ticker, shares |-> shares_to_remove, price |-> current_price]
        sale_proceeds == shares_to_remove * current_price
    IN
    /\ InMainloop
    /\ Has(portfolio, ticker)
    /\ ~SellExceedsAvailable(portfolio, covered_calls, ticker, shares_to_remove)
    /\ ~PriceUnavailable(current_price)
    /\ cash_balance' = cash_balance + sale_proceeds
    /\ files' = [files EXCEPT !.cash = cash_balance']
    /\ UNCHANGED <<portfolio, covered_calls, dividends>>
    /\ Stopped("sell", req)

\* lines 903-932: the exercise up to save_covered_calls_data, before
\* save_portfolio_data (line 933) and save_cash_balance (line 934)
manual_call_away_stopped(index) ==
    LET call_data == covered_calls[index]
        ticker == call_data.ticker
        strike_price == call_data.strike_price
        req == [index |-> index, ticker |-> ticker, strike_price |-> strike_price]
    IN
    /\ InMainloop
    /\ index # 0
    /\ ~NotEnoughShares(portfolio, ticker)
    /\ portfolio' = CalledAway(portfolio, ticker)
    /\ cash_balance' = cash_balance + strike_price * LotSize
    /\ covered_calls' = Del(covered_calls, call_data.k)
    /\ files' = [files EXCEPT !.covered_calls = save_covered_calls_data(covered_calls')]
    /\ UNCHANGED dividends
    /\ Stopped("exercise", req)

\* lines 1351-1355: the program is started again after a stop, the same day
Restart ==
    /\ pc = "stopped"
    /\ portfolio' = load_portfolio_data(files.portfolio)
    /\ covered_calls' = load_covered_calls_data(files.covered_calls)
    /\ dividends' = load_dividends_data(files.dividends)
    /\ cash_balance' = files.cash
    /\ pc' = "expiry"
    /\ lastOp' = [op |-> "launch", req |-> <<>>, msg |-> "", notes |-> <<>>]
    /\ UNCHANGED <<files, today, past3pm, nops, scen>>

BuyStopped == \E t \in Tickers, r \in BuyInputs :
                  /\ add_stock_to_portfolio_stopped(t, r.shares, r.price, r.date)
                  /\ UNCHANGED scen
SellStopped == \E t \in Tickers, n \in SellInputs, p \in SellPrices :
                   remove_stock_from_portfolio_stopped(t, n, p) /\ UNCHANGED scen
ExerciseStopped == \E i \in 0..Len(covered_calls) :
                       manual_call_away_stopped(i) /\ UNCHANGED scen

StopNext ==
    \/ Buy
    \/ Sell
    \/ AddCash
    \/ RemoveCash
    \/ OpenCall
    \/ Exercise
    \/ CloseCall
    \/ AddDividend
    \/ RemoveDividend
    \/ Launch
    \/ ExpirySweep
    \/ HistoricalSweep
    \/ UpcomingSweep
    \/ PaymentSweep
    \/ Return
    \/ BuyStopped
    \/ SellStopped
    \/ ExerciseStopped
    \/ Restart

StopSpec == Init /\ [][StopNext]_vars

\* ------------------------------------------------------------------ outages
\* A launch on a store during which the provider fails for the tickers of
\* scen.down and answers for the others: the price scen.price, one dividend
\* row on FirstDay, an ex-dividend date on LastDay.
OutageDays == {FirstDay, LastDay + 1}
OutagePrices == (ExpiryPrices \ {0}) \cup {60000}

\* lines 373-377: the price of the provider, 0.0 when the call raises
get_current_stock_price(down, ticker, price) == IF ticker \in down THEN 0 ELSE price

\* lines 455-464 and 523-525: yf.Ticker(ticker).dividends, or the call raises
OutageHistory(down, ticker) ==
    IF ticker \in down
    THEN [ok |-> FALSE, rows |-> <<>>]
    ELSE [ok |-> TRUE, rows |-> <<[date |-> FirstDay, amount |-> 250]>>]

\* lines 388-394 and 434-436: yf.Ticker(ticker).info, or the call raises
OutageInfo(down, ticker) ==
    IF ticker \in down
    THEN [ok |-> FALSE, exDividendDate |-> 0, dividendRate |-> 0]
    ELSE [ok |-> TRUE, exDividendDate |-> LastDay, dividendRate |-> 2000]

OutageInit ==
    /\ \E store \in Stores : Loaded(store)
    /\ today \in OutageDays
    /\ past3pm \in BOOLEAN
    /\ \E down \in SUBSET Tickers, price \in OutagePrices :
           scen = [step |-> "outage", down |-> down, price |-> price]

OutageExpirySweep ==
    /\ check_expired_options([i \in 1..Len(covered_calls) |->
           get_current_stock_price(scen.down, covered_calls[i].ticker, scen.price)])
    /\ UNCHANGED scen
OutageHistoricalSweep ==
    /\ check_historical_dividends([i \in 1..Len(portfolio) |->
                                      OutageHistory(scen.down, portfolio[i].k)])
    /\ UNCHANGED scen
OutageUpcomingSweep ==
    /\ fetch_upcoming_dividends([i \in 1..Len(portfolio) |->
                                    OutageInfo(scen.down, portfolio[i].k)])
    /\ UNCHANGED scen

OutageNext ==
    \/ OutageExpirySweep
    \/ OutageHistoricalSweep
    \/ OutageUpcomingSweep
    \/ PaymentSweep
    \/ Return

OutageSpec == OutageInit /\ [][OutageNext]_vars

\* ----------------------------------------------------------------- start-up
\* One launch on a store with contracts that expire on the day of the launch
\* and dividends of the same ticker.  scen.loaded is the portfolio as loaded,
\* scen.exercised the number of contracts of each ticker that the expiry
\* sweep of this launch exercised.
StartupPositions ==
    LET line(t, n) == [ticker |-> t, shares |-> n, purchase_price |-> FracInt(50000),
                       purchase_date |-> FirstDay - 3]
    IN  {<<line("AAPL", 100)>>, <<line("AAPL", 200)>>,
         <<line("AAPL", 100), line("MSFT", 100)>>}
StartupCallLines ==
    {[ticker |-> "AAPL", exp_date |-> FirstDay, strike_price |-> 60000, premium |-> 2000]}
StartupStores ==
    [portfolio : StartupPositions, covered_calls : UpToTwo(StartupCallLines),
     dividends : UpToTwo(StoreDividendLines), cash : {5000000}]

StartupInit ==
    /\ \E store \in StartupStores : Loaded(store)
    /\ today = FirstDay
    /\ past3pm \in BOOLEAN
    /\ scen = [step |-> "startup", loaded |-> portfolio,
               exercised |-> [t \in Tickers |-> 0]]

StartupExpirySweep ==
    /\ \E prices \in [1..Len(covered_calls) -> ExpiryPrices] : check_expired_options(prices)
    /\ scen' = [scen EXCEPT !.exercised =
                   [t \in Tickers |->
                       Cardinality({i \in 1..Len(lastOp'.notes) :
                                       /\ lastOp'.notes[i].kind = "EXERCISED"
                                       /\ lastOp'.notes[i].ticker = t})]]

StartupNext ==
    \/ StartupExpirySweep
    \/ HistoricalSweep
    \/ UpcomingSweep
    \/ PaymentSweep
    \/ Return

StartupSpec == StartupInit /\ [][StartupNext]_vars

\* ----------------------------------------------------------------- backfill
\* One launch on a store without contracts, for which the provider returns
\* the dividend rows scen.rows for every ticker: rows older than the window,
\* on its first day, near a tracked dividend, of today and of tomorrow.
BackfillDates ==
    {FirstDay - HistoryWindow - 1, FirstDay - HistoryWindow, FirstDay - 16, FirstDay - 15,
     FirstDay - DedupTolerance, FirstDay, FirstDay + 1}
BackfillRows ==
    LET row(d) == [date |-> d, amount |-> 250]
    IN  {<<row(d)>> : d \in BackfillDates} \cup {<<row(d), row(e)>> : d, e \in BackfillDates}
BackfillPositions ==
    LET line(t, n, d) == [ticker |-> t, shares |-> n, purchase_price |-> FracInt(50000),
                          purchase_date |-> d]
    IN  {<<line("AAPL", 100, 1)>>, <<line("AAPL", 100, FirstDay - DedupTolerance)>>,
         <<line("AAPL", 100, FirstDay - DedupTolerance), line("MSFT", 50, 1)>>}
BackfillStores ==
    [portfolio : BackfillPositions, covered_calls : {<<>>},
     dividends : UpToTwo(StoreDividendLines), cash : {5000000}]

BackfillInit ==
    /\ \E store \in BackfillStores : Loaded(store)
    /\ today = FirstDay
    /\ past3pm = FALSE
    /\ \E rows \in BackfillRows : scen = [step |-> "backfill", rows |-> rows]

BackfillHistoricalSweep ==
    /\ check_historical_dividends([i \in 1..Len(portfolio) |->
                                      [ok |-> TRUE, rows |-> scen.rows]])
    /\ UNCHANGED scen

BackfillNext ==
    \/ ExpirySweep
    \/ BackfillHistoricalSweep
    \/ UpcomingSweep
    \/ PaymentSweep
    \/ Return

BackfillSpec == BackfillInit /\ [][BackfillNext]_vars

\* ------------------------------------------------------------ held position
\* Sessions on a store with 100 shares bought the day before the first
\* launch and, possibly, a dividend going ex on the day of the launch and
\* payable the day after.
HeldStores ==
    [portfolio : {<<[ticker |-> "AAPL", shares |-> 100, purchase_price |-> FracInt(50000),
                     purchase_date |-> FirstDay - 1]>>},
     covered_calls : {<<>>},
     dividends : {<<>>, <<[ticker |-> "AAPL", ex_div_date |-> FirstDay,
                           payment_date |-> FirstDay + 1, dividend_per_share |-> 500,
                           status |-> "pending"]>>},
     cash : {5000000}]

HeldInit ==
    /\ \E store \in HeldStores : Loaded(store)
    /\ today = FirstDay
    /\ past3pm = FALSE
    /\ scen = [step |-> "held"]

\* The requests of these sessions: purchases, sales and launches.
HeldNext ==
    \/ Buy
    \/ Sell
    \/ Launch
    \/ ExpirySweep
    \/ HistoricalSweep
    \/ UpcomingSweep
    \/ PaymentSweep
    \/ Return

HeldSpec == HeldInit /\ [][HeldNext]_vars

\* ----------------------------------------------------------- dividend event
\* One dividend of 0.50 a share (annual rate 2.00) going ex on the day of the
\* first launch, on 100 shares held since the day before.  The provider's
\* info gives the ex-dividend date; its history has one row for the event,
\* dated scen.row: the ex-dividend date itself, or the payment 5, 6 or 21
\* days later.  Launches follow on those days.
EventInit ==
    /\ \E store \in HeldStores : Loaded(store)
    /\ today = FirstDay
    /\ past3pm = FALSE
    /\ \E lag \in {0, DedupTolerance, DedupTolerance + 1, EstimatedPayLag} :
           scen = [step |-> "event", row |-> FirstDay + lag]

EventHistoricalSweep ==
    /\ check_historical_dividends([i \in 1..Len(portfolio) |->
           [ok |-> TRUE, rows |-> <<[date |-> scen.row, amount |-> 500]>>]])
    /\ UNCHANGED scen
EventUpcomingSweep ==
    /\ fetch_upcoming_dividends([i \in 1..Len(portfolio) |->
           [ok |-> TRUE, exDividendDate |-> FirstDay, dividendRate |-> 2000]])
    /\ UNCHANGED scen
EventLaunch ==
    /\ \E lag \in {DedupTolerance, DedupTolerance + 1, EstimatedPayLag},
          after3pm \in BOOLEAN : Relaunch(FirstDay + lag, after3pm)
    /\ UNCHANGED scen

EventNext ==
    \/ ExpirySweep
    \/ EventHistoricalSweep
    \/ EventUpcomingSweep
    \/ PaymentSweep
    \/ Return
    \/ EventLaunch

EventSpec == EventInit /\ [][EventNext]_vars

\* ------------------------------------------------------------------ claims
\* The quantities of the data model, stated on the ledger itself.
TotalShares(pf, t) == IF Has(pf, t) THEN Get(pf, t).shares ELSE 0
OpenContracts(calls, t) == Cardinality({i \in 1..Len(calls) : calls[i].ticker = t})
EncumberedShares(calls, t) == 100 * OpenContracts(calls, t)
AvailableShares(pf, calls, t) == Max(0, TotalShares(pf, t) - EncumberedShares(calls, t))

\* A step in which a handler or a sweep ran, and how it ended.
Ran(op) == lastOp'.op = op /\ (pc = "mainloop" \/ pc = op)
Accepted(o) == o.msg \in {"Purchase Successful", "Stock Sold", "Success",
                          "Stock Called Away", ""}
LedgerUnchanged == UNCHANGED <<ledger, files>>

\* C1: in every reachable state and for every ticker, the available shares
\* the program computes plus 100 shares per open contract on the ticker equal
\* the shares of the ticker's position (0 without a position).
C1_SharesConserved ==
    \A t \in Tickers :
        get_available_shares(portfolio, covered_calls, t)
            + EncumberedShares(covered_calls, t) = TotalShares(portfolio, t)

\* A position of 150 shares, 100 of them under a contract, 50 free.
C1_Witness ==
    \E t \in Tickers :
        /\ OpenContracts(covered_calls, t) = 1
        /\ TotalShares(portfolio, t) = 150
        /\ get_available_shares(portfolio, covered_calls, t) = 50

\* C2: a sell request for more shares than are available (the position's
\* shares less 100 per open contract, 0 without a position) is refused, and
\* the refusal changes no position, contract, dividend, cash or file.
C2_SellBeyondAvailableRefused ==
    [][(Ran("sell") /\ lastOp'.req.shares
            > AvailableShares(portfolio, covered_calls, lastOp'.req.ticker))
       => (~Accepted(lastOp') /\ LedgerUnchanged)]_vars

\* A refused sale of shares the position holds but a contract encumbers.
C2_Witness ==
    /\ lastOp.op = "sell"
    /\ lastOp.msg = "Cannot sell"
    /\ lastOp.req.shares > 0
    /\ lastOp.req.shares <= TotalShares(portfolio, lastOp.req.ticker)
    /\ lastOp.req.shares > AvailableShares(portfolio, covered_calls, lastOp.req.ticker)

\* C3: an open-call request on a ticker with fewer than 100 available shares
\* (or no position) is refused: no contract is created, no cash credited.
C3_UncoveredCallRefused ==
    [][(Ran("open_call")
            /\ AvailableShares(portfolio, covered_calls, lastOp'.req.ticker) < 100)
       => (~Accepted(lastOp') /\ LedgerUnchanged)]_vars

\* A refused second call on a position whose 100 shares are all encumbered.
C3_Witness ==
    /\ lastOp.op = "open_call"
    /\ lastOp.msg = "Need at least 100 available shares"
    /\ TotalShares(portfolio, lastOp.req.ticker) >= 100
    /\ OpenContracts(covered_calls, lastOp.req.ticker) >= 1

\* The cash effect the ledger's operations are documented to have, read off
\* the request and the notices of the step that has just run.
RECURSIVE NotedCash(_)
NotedCash(notes) ==
    IF notes = <<>> THEN 0
    ELSE LET note == Head(notes) IN
         (CASE note.kind = "EXERCISED" -> note.strike_price * 100
            [] note.kind \in {"received", "credited"} -> note.shares * note.dividend_per_share
            [] OTHER -> 0)
         + NotedCash(Tail(notes))

DocumentedCashEffect(o) ==
    CASE o.op = "buy" /\ Accepted(o) -> 0 - o.req.shares * o.req.price
      [] o.op = "sell" /\ Accepted(o) -> o.req.shares * o.req.price
      [] o.op = "open_call" /\ Accepted(o) -> o.req.premium * 100
      [] o.op = "exercise" /\ Accepted(o) -> o.req.strike_price * 100
      [] o.op = "add_cash" /\ Accepted(o) -> o.req.amount
      [] o.op = "remove_cash" /\ Accepted(o) -> 0 - o.req.amount
      [] o.op \in {"expiry", "historical", "payments"} -> NotedCash(o.notes)
      [] OTHER -> 0

\* The notices of a dividend sweep name the shares held when it ran.
NotedSharesHeld(o) ==
    \A i \in 1..Len(o.notes) :
        o.notes[i].kind \in {"received", "credited"}
            => o.notes[i].shares = TotalShares(portfolio, o.notes[i].ticker)

\* C4: every step changes cash by exactly the documented amount of the
\* operation it ran (buy -shares*price, sell +shares*price, open-call
\* +premium*100, manual or swept exercise +strike*100, a dividend paid or
\* back-filled +shares held*per share, add/withdraw cash +/-amount) and by 0
\* when the request is refused or the operation is any other one, a relaunch
\* from the saved files included.
C4_CashConserved ==
    [][/\ cash_balance' = cash_balance + DocumentedCashEffect(lastOp')
       /\ lastOp'.op \in {"historical", "payments"} => NotedSharesHeld(lastOp')]_vars

\* After a launch whose expiry sweep exercised the contract written on a
\* purchase of 100 shares: 5000 - 5000 + 200 + 6000 dollars.
C4_Witness ==
    /\ lastOp.op = "expiry"
    /\ \E i \in 1..Len(lastOp.notes) : lastOp.notes[i].kind = "EXERCISED"
    /\ cash_balance = 5000000 - 100 * 50000 + 100 * 2000 + 100 * 60000

\* C5: the cash balance is never negative.
C5_CashNeverNegative == cash_balance >= 0

\* A request one of whose amounts is zero or negative.
NonPositiveRequest(o) ==
    \/ o.op = "buy" /\ (o.req.shares <= 0 \/ o.req.price <= 0)
    \/ o.op = "sell" /\ o.req.shares <= 0
    \/ o.op = "open_call" /\ (o.req.strike_price <= 0 \/ o.req.premium <= 0)
    \/ o.op \in {"add_cash", "remove_cash"} /\ o.req.amount <= 0
    \/ o.op = "add_dividend" /\ o.req.dividend_per_share <= 0

\* C6: a request with a non-positive amount changes no position, contract,
\* dividend, cash or file.
C6_NonPositiveRequestChangesNothing ==
    [][(pc = "mainloop" /\ NonPositiveRequest(lastOp')) => LedgerUnchanged]_vars

\* C7: a buy whose cost exceeds the cash, and a withdrawal above the cash, are
\* refused and change nothing; a well-formed buy (positive shares and price, a
\* YYYY-MM-DD date) whose cost equals the cash, and a withdrawal of a positive
\* amount equal to the cash, go through and leave the cash at 0.
C7_CashBoundary ==
    [][/\ (Ran("buy") /\ lastOp'.req.shares * lastOp'.req.price > cash_balance)
            => (~Accepted(lastOp') /\ LedgerUnchanged)
       /\ (Ran("remove_cash") /\ lastOp'.req.amount > cash_balance)
            => (~Accepted(lastOp') /\ LedgerUnchanged)
       /\ (Ran("buy") /\ lastOp'.req.shares > 0 /\ lastOp'.req.price > 0
                      /\ lastOp'.req.date >= 1
                      /\ lastOp'.req.shares * lastOp'.req.price = cash_balance)
            => (Accepted(lastOp') /\ cash_balance' = 0
                /\ TotalShares(portfolio', lastOp'.req.ticker)
                     = TotalShares(portfolio, lastOp'.req.ticker) + lastOp'.req.shares)
       /\ (Ran("remove_cash") /\ lastOp'.req.amount > 0
                              /\ lastOp'.req.amount = cash_balance)
            => (Accepted(lastOp') /\ cash_balance' = 0)]_vars

\* A purchase that spent the whole balance.
C7_Witness ==
    /\ lastOp.op = "buy"
    /\ Accepted(lastOp)
    /\ lastOp.req.shares * lastOp.req.price = 5000000
    /\ cash_balance = 0

\* a/b = c/d for fractions and whole numbers
SameRatio(a, b, c, d) == a * d = c * b

\* C8: no position ever has negative shares; an accepted buy into an existing
\* position adds the bought shares and sets the average cost to
\* (existingShares*existingCost + boughtShares*price)/(existingShares + boughtShares);
\* a sale that leaves the position in place leaves its average cost as it was.
C8_WeightedAverage ==
    [][/\ \A i \in 1..Len(portfolio') : portfolio'[i].shares >= 0
       /\ (Ran("buy") /\ Accepted(lastOp') /\ Has(portfolio, lastOp'.req.ticker))
            => LET old == Get(portfolio, lastOp'.req.ticker)
                   new == Get(portfolio', lastOp'.req.ticker)
                   bought == lastOp'.req.shares
               IN  /\ new.shares = old.shares + bought
                   /\ SameRatio(new.purchase_price.n, new.purchase_price.d,
                                old.shares * old.purchase_price.n
                                  + bought * lastOp'.req.price * old.purchase_price.d,
                                old.purchase_price.d * (old.shares + bought))
       /\ (Ran("sell") /\ Has(portfolio', lastOp'.req.ticker))
            => Get(portfolio', lastOp'.req.ticker).purchase_price
                 = Get(portfolio, lastOp'.req.ticker).purchase_price]_vars

\* 50 shares at 40 dollars bought into 100 shares at 50: the average cost of
\* the 150 shares is 140/3 dollars.
C8_Witness ==
    /\ lastOp.op = "buy"
    /\ Accepted(lastOp)
    /\ TotalShares(portfolio, lastOp.req.ticker) = 150
    /\ Get(portfolio, lastOp.req.ticker).purchase_price = [n |-> 140000, d |-> 3]

\* C9: every position that exists holds more than 0 shares.
C9_PositionsHoldShares == \A i \in 1..Len(portfolio) : portfolio[i].shares > 0

\* An exercise, manual or swept, took the last 100 shares and the position
\* is gone.
C9_Witness ==
    /\ \/ lastOp.op = "exercise" /\ Accepted(lastOp) /\ ~Has(portfolio, lastOp.req.ticker)
       \/ /\ lastOp.op = "expiry"
          /\ \E i \in 1..Len(lastOp.notes) :
                 /\ lastOp.notes[i].kind = "EXERCISED"
                 /\ ~Has(portfolio, lastOp.notes[i].ticker)

\* C10: in the end-to-end scenario, cash is C - 100p after the buy and
\* C - 100p + 100m after the call is written, with 100 shares encumbered and
\* none available from then until the sweep; after the sweep the position and
\* the contract are gone and cash is C - 100p + 100m + 100K.
C10_Scenario ==
    LET r == scen.in
        t == r.t
    IN
    /\ scen.step = "bought"
         => /\ cash_balance = r.C - 100 * r.p
            /\ TotalShares(portfolio, t) = 100
    /\ scen.step \in {"opened", "launched"}
         => /\ cash_balance = r.C - 100 * r.p + 100 * r.m
            /\ TotalShares(portfolio, t) = 100
            /\ EncumberedShares(covered_calls, t) = 100
            /\ get_shares_in_contracts(covered_calls, t) = 100
            /\ get_available_shares(portfolio, covered_calls, t) = 0
    /\ scen.step = "swept"
         => /\ ~Has(portfolio, t)
            /\ covered_calls = <<>>
            /\ cash_balance = r.C - 100 * r.p + 100 * r.m + 100 * r.K
            /\ files = [StartFiles(cash_balance) EXCEPT !.dividends = files.dividends]

\* The run with C = 10000, p = 50, K = 60, m = 2 has ended with 11200 dollars.
C10_Witness ==
    /\ scen.step = "swept"
    /\ scen.in.C = 10000000 /\ scen.in.p = 50000 /\ scen.in.K = 60000 /\ scen.in.m = 2000
    /\ cash_balance = 11200000
    /\ portfolio = <<>>

\* A pending dividend the payment sweep of the day finds due.
DuePending(d) == d.status = "pending" /\ today >= d.payment_date
\* ... and whose ticker is held since before the ex-dividend date.
Payable(d) ==
    /\ DuePending(d)
    /\ Has(portfolio, d.ticker)
    /\ Get(portfolio, d.ticker).purchase_date < d.ex_div_date

RECURSIVE DuePayout(_)
DuePayout(divs) ==
    IF divs = <<>> THEN 0
    ELSE (IF Payable(Head(divs))
          THEN TotalShares(portfolio, Head(divs).ticker) * Head(divs).dividend_per_share
          ELSE 0) + DuePayout(Tail(divs))

\* C12: the payment sweep turns every pending dividend that is due, whose
\* ticker is held and whose position was bought strictly before the
\* ex-dividend date into a paid one, adds to cash exactly the shares held
\* times the dividend per share of each of them, and changes no position and
\* no contract.
C12_DueDividendPaid ==
    [][Ran("payments")
       => /\ \A i \in 1..Len(dividends) :
                 Payable(dividends[i])
                    => /\ Has(dividends', dividends[i].k)
                       /\ Get(dividends', dividends[i].k)
                            = [dividends[i] EXCEPT !.status = "paid"]
          /\ cash_balance' = cash_balance + DuePayout(dividends)
          /\ UNCHANGED <<portfolio, covered_calls>>]_vars

\* 100 shares bought for the whole 5000 dollars were paid 0.50 each: 50 dollars.
C12_Witness ==
    /\ lastOp.op = "payments"
    /\ \E i \in 1..Len(lastOp.notes) :
           /\ lastOp.notes[i].kind = "received"
           /\ lastOp.notes[i].shares = 100
           /\ lastOp.notes[i].dividend_per_share = 500
    /\ \E i \in 1..Len(dividends) : dividends[i].status = "paid"
    /\ cash_balance = 50000

\* C13: the payment sweep turns every pending dividend that is due and whose
\* ticker is not held, or is held since the ex-dividend date or later, into an
\* ineligible one, and this adds nothing to cash: a sweep with no payable
\* dividend leaves cash as it was.
C13_DueDividendIneligible ==
    [][Ran("payments")
       => /\ \A i \in 1..Len(dividends) :
                 (DuePending(dividends[i]) /\ ~Payable(dividends[i]))
                    => /\ Has(dividends', dividends[i].k)
                       /\ Get(dividends', dividends[i].k)
                            = [dividends[i] EXCEPT !.status = "ineligible"]
          /\ (\A i \in 1..Len(dividends) : ~Payable(dividends[i]))
                => cash_balance' = cash_balance]_vars

\* A dividend became ineligible on a position bought on the ex-dividend day.
C13_Witness ==
    /\ lastOp.op = "payments"
    /\ \E i \in 1..Len(lastOp.notes) : lastOp.notes[i].kind = "purchased after"
    /\ \E i \in 1..Len(dividends) :
           /\ dividends[i].status = "ineligible"
           /\ Has(portfolio, dividends[i].ticker)
           /\ Get(portfolio, dividends[i].ticker).purchase_date = dividends[i].ex_div_date

\* C19: every dividend in the ledger has its payment date strictly after its
\* ex-dividend date.
C19_PaymentAfterExDate ==
    \A i \in 1..Len(dividends) : dividends[i].payment_date > dividends[i].ex_div_date

\* The ledger holds a back-filled dividend (3 days apart), a discovered one (21
\* days apart) and one typed in by the user (1 day apart).
C19_Witness ==
    /\ \E i \in 1..Len(dividends) :
           /\ dividends[i].status = "paid"
           /\ dividends[i].ex_div_date = dividends[i].payment_date - 3
    /\ \E i \in 1..Len(dividends) :
           dividends[i].payment_date = dividends[i].ex_div_date + 21
    /\ \E i \in 1..Len(dividends) :
           dividends[i].payment_date = dividends[i].ex_div_date + 1

\* The stock value with the prices the provider answers, position by position.
RECURSIVE PricedValue(_, _, _)
PricedValue(pf, prices, i) ==
    IF i = 0 THEN 0 ELSE pf[i].shares * prices[i] + PricedValue(pf, prices, i - 1)

\* C20: a sale for which the provider answers the price 0 is refused and
\* changes nothing; the valuation of any reachable ledger completes whatever
\* prices are 0, lists every position, shows price 0 and value 0 for a
\* position without a price, and adds nothing for it to the stock value.
C20_PriceUnavailable ==
    /\ [][(\E t \in Tickers, n \in SellInputs :
              /\ remove_stock_from_portfolio(t, n, 0)
              /\ Has(portfolio, t)
              /\ n <= AvailableShares(portfolio, covered_calls, t))
           => (~Accepted(lastOp') /\ LedgerUnchanged)]_vars
    /\ [](\A prices \in [1..Len(portfolio) -> SellPrices] :
             LET v == calculate_portfolio_value(portfolio, covered_calls, cash_balance, prices)
             IN  /\ ~v.raised
                 /\ Len(v.portfolio_breakdown) = Len(portfolio)
                 /\ \A i \in 1..Len(portfolio) :
                        /\ v.portfolio_breakdown[i].k = portfolio[i].k
                        /\ prices[i] = 0
                             => /\ v.portfolio_breakdown[i].current_price = 0
                                /\ v.portfolio_breakdown[i].current_value = 0
                 /\ v.stock_value = PricedValue(portfolio, prices, Len(portfolio))
                 /\ v.total_value = v.stock_value + cash_balance)

\* A sale was refused for want of a price, and the position is still held.
C20_Witness ==
    /\ lastOp.op = "sell"
    /\ lastOp.msg = "Could not get current price"
    /\ Has(portfolio, lastOp.req.ticker)

\* What the ledger holds, whatever ids its entries have.
Content ==
    <<save_portfolio_data(portfolio), save_covered_calls_data(covered_calls),
      save_dividends_data(dividends), cash_balance>>

C14_StatusOneWay ==
    [][\A i \in 1..Len(dividends) :
          dividends[i].status \in {"paid", "ineligible"}
             => IF lastOp'.op = "launch"
                THEN /\ i <= Len(dividends')
                     /\ [dividends'[i] EXCEPT !.k = dividends[i].k] = dividends[i]
                ELSE IF Ran("remove_dividend") /\ lastOp'.req.index = i
                THEN ~Has(dividends', dividends[i].k)
                ELSE /\ Has(dividends', dividends[i].k)
                     /\ Get(dividends', dividends[i].k) = dividends[i]]_vars

\* C16: an accepted open-call request adds 100 times the premium to cash and
\* one contract to the ledger: the ticker has one open contract more, 100
\* encumbered shares more and 100 available shares fewer, and no position
\* changes.
C16_OpenCallAddsContract ==
    [][(Ran("open_call") /\ Accepted(lastOp'))
       => LET t == lastOp'.req.ticker IN
          /\ cash_balance' = cash_balance + 100 * lastOp'.req.premium
          /\ Len(covered_calls') = Len(covered_calls) + 1
          /\ OpenContracts(covered_calls', t) = OpenContracts(covered_calls, t) + 1
          /\ EncumberedShares(covered_calls', t) = EncumberedShares(covered_calls, t) + 100
          /\ AvailableShares(portfolio', covered_calls', t)
               = AvailableShares(portfolio, covered_calls, t) - 100
          /\ UNCHANGED portfolio]_vars

\* A sequence without its i-th element.
WithoutIndex(seq, i) == SubSeq(seq, 1, i - 1) \o SubSeq(seq, i + 1, Len(seq))

\* Every position of a ticker other than t is as it was.
OtherPositionsUnchanged(t) ==
    \A u \in Tickers \ {t} :
        /\ Has(portfolio', u) <=> Has(portfolio, u)
        /\ Has(portfolio, u) => Get(portfolio', u) = Get(portfolio, u)

\* The files hold what the ledger holds.
Persisted ==
    files = [portfolio |-> save_portfolio_data(portfolio),
             covered_calls |-> save_covered_calls_data(covered_calls),
             dividends |-> save_dividends_data(dividends),
             cash |-> cash_balance]

\* C17: a manual exercise of the selected contract is refused and changes
\* nothing when the contract's ticker has no position or fewer than 100
\* shares; otherwise, whatever the contract's expiration date, it takes
\* exactly 100 shares from the position (which is deleted when none is left),
\* adds 100 times the strike to cash, removes exactly that contract and saves
\* the result.
C17_ManualExercise ==
    [][(Ran("exercise") /\ lastOp'.req.index # 0)
       => LET i == lastOp'.req.index
              t == covered_calls[i].ticker
          IN  IF TotalShares(portfolio, t) < 100
              THEN ~Accepted(lastOp') /\ LedgerUnchanged
              ELSE /\ Accepted(lastOp')
                   /\ TotalShares(portfolio', t) = TotalShares(portfolio, t) - 100
                   /\ Has(portfolio', t) <=> TotalShares(portfolio, t) > 100
                   /\ Has(portfolio', t)
                        => Get(portfolio', t) = [Get(portfolio, t) EXCEPT !.shares = @ - 100]
                   /\ OtherPositionsUnchanged(t)
                   /\ cash_balance' = cash_balance + 100 * covered_calls[i].strike_price
                   /\ covered_calls' = WithoutIndex(covered_calls, i)
                   /\ UNCHANGED dividends
                   /\ Persisted']_vars

\* A manual exercise was refused on a position of 50 shares.
C17_Witness ==
    /\ lastOp.op = "exercise"
    /\ lastOp.msg = "Not enough shares"
    /\ TotalShares(portfolio, lastOp.req.ticker) = 50
    /\ OpenContracts(covered_calls, lastOp.req.ticker) >= 1

\* C18: closing the selected contract removes exactly that contract, leaves
\* cash, every position, every dividend and every other contract as they
\* were, and saves the result; when the position covered its contracts, the
\* ticker's available shares rise by 100.
C18_CloseCallFrame ==
    [][(Ran("close_call") /\ lastOp'.req.index # 0)
       => LET i == lastOp'.req.index
              t == covered_calls[i].ticker
          IN  /\ covered_calls' = WithoutIndex(covered_calls, i)
              /\ UNCHANGED <<portfolio, dividends, cash_balance>>
              /\ Persisted'
              /\ TotalShares(portfolio, t) >= EncumberedShares(covered_calls, t)
                   => AvailableShares(portfolio', covered_calls', t)
                        = AvailableShares(portfolio, covered_calls, t) + 100]_vars

\* One of two contracts on 200 shares was closed: the other one is still
\* there, 100 shares are available and the cash is what the store held.
C18_Witness ==
    /\ lastOp.op = "close_call"
    /\ lastOp.req.index # 0
    /\ Len(covered_calls) = 1
    /\ TotalShares(portfolio, covered_calls[1].ticker) = 200
    /\ AvailableShares(portfolio, covered_calls, covered_calls[1].ticker) = 100
    /\ cash_balance = 5000000

\* What a ledger operation does when all of its effects are applied.
AllApplied(o) ==
    LET r == o.req IN
    CASE o.op = "buy" ->
           /\ cash_balance' = cash_balance - r.shares * r.price
           /\ TotalShares(portfolio', r.ticker) = TotalShares(portfolio, r.ticker) + r.shares
      [] o.op = "sell" ->
           /\ cash_balance' = cash_balance + r.shares * r.price
           /\ TotalShares(portfolio', r.ticker) = TotalShares(portfolio, r.ticker) - r.shares
      [] o.op = "exercise" ->
           /\ cash_balance' = cash_balance + r.strike_price * LotSize
           /\ TotalShares(portfolio', r.ticker) = TotalShares(portfolio, r.ticker) - LotSize
           /\ covered_calls' = WithoutIndex(covered_calls, r.index)
      [] o.op = "open_call" ->
           /\ cash_balance' = cash_balance + PremiumCollected(r.premium)
           /\ Len(covered_calls') = Len(covered_calls) + 1
      [] o.op = "add_cash" -> cash_balance' = cash_balance + r.amount
      [] o.op = "remove_cash" -> cash_balance' = cash_balance - r.amount
      [] o.op = "add_dividend" -> Len(dividends') = Len(dividends) + 1
      [] OTHER -> FALSE

\* C15: every step of a buy, a sell, an open-call, a manual exercise, a cash
\* deposit or withdrawal or an add-dividend, a step that stops between the
\* handler's statements included, either changes nothing in the ledger and
\* nothing in the files, or applies all the effects of the operation (cash
\* and the positions, contracts or dividends it touches) and leaves the
\* files holding exactly the resulting ledger.
C15_Atomic ==
    [][(pc = "mainloop" /\ lastOp'.op \in {"buy", "sell", "open_call", "exercise",
                                           "add_cash", "remove_cash", "add_dividend"})
       => \/ LedgerUnchanged
          \/ AllApplied(lastOp') /\ Persisted']_vars

\* The entries of a list of contracts or dividends on the tickers of T.
EntriesOf(seq, T) == SelectSeq(seq, LAMBDA e : e.ticker \in T)
PositionsOf(pf, T) == SelectSeq(pf, LAMBDA e : e.k \in T)

\* C21: in a launch during which the provider fails for some tickers, the
\* expiry sweep, the historical backfill and the upcoming discovery leave
\* every contract, dividend and position of a failed ticker as it was, change
\* nothing at all when every ticker they look up failed, and still process
\* the other tickers: a due contract of an answered ticker is removed, and an
\* untracked dividend row or ex-dividend date of an answered ticker is
\* tracked afterwards.
C21_FailedLookupSkipped ==
    [][/\ Ran("expiry") =>
            /\ EntriesOf(covered_calls', scen.down) = EntriesOf(covered_calls, scen.down)
            /\ PositionsOf(portfolio', scen.down) = PositionsOf(portfolio, scen.down)
            /\ EntriesOf(covered_calls, Tickers \ scen.down) = <<>> => LedgerUnchanged
            /\ \A i \in 1..Len(covered_calls) :
                   /\ covered_calls[i].ticker \notin scen.down
                   /\ Due(covered_calls[i].exp_date, today, past3pm)
                   => \A j \in 1..Len(covered_calls') : covered_calls'[j] # covered_calls[i]
       /\ Ran("historical") =>
            /\ EntriesOf(dividends', scen.down) = EntriesOf(dividends, scen.down)
            /\ PositionsOf(portfolio, Tickers \ scen.down) = <<>> => LedgerUnchanged
            /\ \A i \in 1..Len(portfolio) :
                   portfolio[i].k \notin scen.down
                   => TrackedNear(dividends', portfolio[i].k, FirstDay)
       /\ Ran("upcoming") =>
            /\ EntriesOf(dividends', scen.down) = EntriesOf(dividends, scen.down)
            /\ PositionsOf(portfolio, Tickers \ scen.down) = <<>> => LedgerUnchanged
            /\ \A i \in 1..Len(portfolio) :
                   portfolio[i].k \notin scen.down /\ LastDay >= today
                   => TrackedExact(dividends', portfolio[i].k, LastDay)
      ]_vars

\* The part of C21 that the backfill and the discovery satisfy.
C21_DividendLookupsSkipped ==
    [][Ran("historical") \/ Ran("upcoming") =>
          /\ EntriesOf(dividends', scen.down) = EntriesOf(dividends, scen.down)
          /\ PositionsOf(portfolio, Tickers \ scen.down) = <<>> => LedgerUnchanged]_vars

\* The order of lines 1358-1367, as pairs of consecutive values of pc.
StartupOrder ==
    {<<"expiry", "historical">>, <<"historical", "upcoming">>, <<"upcoming", "payments">>,
     <<"payments", "returning">>, <<"returning", "mainloop">>}

\* The shares of a ticker left by the expiry sweep of this launch, and whether
\* a dividend is payable on them.
HeldAfterExpiry(t) == TotalShares(scen.loaded, t) - LotSize * scen.exercised[t]
PayableAfterExpiry(d) ==
    /\ DuePending(d)
    /\ HeldAfterExpiry(d.ticker) > 0
    /\ Get(scen.loaded, d.ticker).purchase_date < d.ex_div_date

RECURSIVE PayoutAfterExpiry(_)
PayoutAfterExpiry(divs) ==
    IF divs = <<>> THEN 0
    ELSE (IF PayableAfterExpiry(Head(divs))
          THEN HeldAfterExpiry(Head(divs).ticker) * Head(divs).dividend_per_share
          ELSE 0) + PayoutAfterExpiry(Tail(divs))

\* C22: a launch runs the expiry sweep, the historical backfill, the upcoming
\* discovery and the payment sweep in this order, and the payment sweep works
\* on the holdings the expiry sweep left: a due pending dividend of a ticker
\* is paid on the loaded shares less 100 per contract exercised in this
\* launch, and is marked ineligible when the exercises deleted the position.
C22_PostExpiryHoldings ==
    [][/\ pc' # pc => <<pc, pc'>> \in StartupOrder
       /\ Ran("payments") =>
            /\ \A i \in 1..Len(dividends) :
                   DuePending(dividends[i]) =>
                       Get(dividends', dividends[i].k).status =
                           IF PayableAfterExpiry(dividends[i]) THEN "paid" ELSE "ineligible"
            /\ cash_balance' = cash_balance + PayoutAfterExpiry(dividends)]_vars

\* Of 200 shares 100 were called away by this launch's expiry sweep, and the
\* due dividend of 0.50 was received on the 100 left.
C22_Witness ==
    /\ scen.step = "startup"
    /\ lastOp.op = "payments"
    /\ TotalShares(scen.loaded, "AAPL") = 200
    /\ scen.exercised["AAPL"] = 1
    /\ \E i \in 1..Len(lastOp.notes) :
           /\ lastOp.notes[i].kind = "received"
           /\ lastOp.notes[i].ticker = "AAPL"
           /\ lastOp.notes[i].shares = 100
    /\ cash_balance = 5000000 + 100 * 60000 + 100 * 500

\* The same launch when the exercise took the whole position.
C22_WitnessDeleted ==
    /\ scen.step = "startup"
    /\ lastOp.op = "payments"
    /\ scen.exercised["AAPL"] = 1
    /\ ~Has(portfolio, "AAPL")
    /\ \E i \in 1..Len(lastOp.notes) : lastOp.notes[i].kind = "no shares"
    /\ cash_balance = 5000000 + 100 * 60000

\* The premiums of the open contracts, 100 shares each.
RECURSIVE PremiumsOf(_)
PremiumsOf(calls) ==
    IF calls = <<>> THEN 0 ELSE 100 * Head(calls).premium + PremiumsOf(Tail(calls))

SweepPrice(i) == get_current_stock_price(scen.down, covered_calls[i].ticker, scen.price)
CutoffReached(c) == c.exp_date < today \/ (c.exp_date = today /\ past3pm)
PriceReachesMargin(i) == SweepPrice(i) >= covered_calls[i].strike_price + 10

\* The number of contracts of ticker t among the first n that are exercised:
\* each one takes 100 shares, so the next one finds 100 fewer.
RECURSIVE CalledUpTo(_, _)
CalledUpTo(n, t) ==
    IF n = 0 THEN 0
    ELSE LET before == CalledUpTo(n - 1, t)
             c == covered_calls[n]
         IN  before + (IF /\ c.ticker = t
                          /\ CutoffReached(c)
                          /\ PriceReachesMargin(n)
                          /\ TotalShares(portfolio, t) - 100 * before >= 100
                       THEN 1 ELSE 0)
IsCalled(i) ==
    CalledUpTo(i, covered_calls[i].ticker) = CalledUpTo(i - 1, covered_calls[i].ticker) + 1

RECURSIVE CalledCash(_)
CalledCash(n) ==
    IF n = 0 THEN 0
    ELSE CalledCash(n - 1) + (IF IsCalled(n) THEN 100 * covered_calls[n].strike_price ELSE 0)

NotesOf(kind, T) ==
    Cardinality({i \in 1..Len(lastOp'.notes) :
                    lastOp'.notes[i].kind = kind /\ lastOp'.notes[i].ticker \in T})
Removed(i) == \A j \in 1..Len(covered_calls') : covered_calls'[j] # covered_calls[i]

\* C24: the expiry sweep exercises a contract exactly when 15:00 of its
\* expiration date is reached, the price is at least strike + 0.01 and the
\* position then holds at least 100 shares: each exercise takes exactly 100
\* shares from the position, which is deleted when none is left, adds
\* 100 times the strike to cash and removes the contract; nothing else
\* changes a position or the cash, so a price at the strike or less than 0.01
\* above it exercises nothing.
C24_SweepExercise ==
    [][Ran("expiry") =>
          /\ \A t \in Tickers :
                 LET left == TotalShares(portfolio, t) - 100 * CalledUpTo(Len(covered_calls), t)
                 IN  /\ TotalShares(portfolio', t) = left
                     /\ Has(portfolio', t) <=> (Has(portfolio, t) /\ left > 0)
                     /\ NotesOf("EXERCISED", {t}) = CalledUpTo(Len(covered_calls), t)
          /\ cash_balance' = cash_balance + CalledCash(Len(covered_calls))
          /\ \A i \in 1..Len(covered_calls) : IsCalled(i) => Removed(i)
          /\ UNCHANGED dividends]_vars

\* At the price 60.01 for the strike 60.00, one contract on 200 shares was
\* exercised: 100 shares are left and 6000 dollars came in.
C24_Witness ==
    /\ scen.step = "outage"
    /\ lastOp.op = "expiry"
    /\ scen.price = 60010
    /\ Len(lastOp.notes) = 1
    /\ lastOp.notes[1].kind = "EXERCISED"
    /\ lastOp.notes[1].strike_price = 60000
    /\ TotalShares(portfolio, lastOp.notes[1].ticker) = 100
    /\ cash_balance = 5000000 + 100 * 60000

\* C25: a contract whose cutoff is reached and whose price is below
\* strike + 0.01 is removed by the expiry sweep with the notice that it
\* expired worthless, and a sweep in which every due contract is such a one
\* changes no position, no dividend and not the cash.
C25_ExpiredWorthless ==
    [][Ran("expiry") =>
          LET worthless == {i \in 1..Len(covered_calls) :
                               /\ CutoffReached(covered_calls[i])
                               /\ ~PriceReachesMargin(i)}
          IN  /\ \A i \in worthless : Removed(i)
              /\ NotesOf("EXPIRED", Tickers) = Cardinality(worthless)
              /\ (\A i \in 1..Len(covered_calls) :
                     CutoffReached(covered_calls[i]) => i \in worthless)
                 => UNCHANGED <<portfolio, dividends, cash_balance>>]_vars

\* At the price 60.005 for the strike 60.00 the contract on 200 shares is gone
\* and nothing else moved.
C25_Witness ==
    /\ scen.step = "outage"
    /\ lastOp.op = "expiry"
    /\ scen.price = 60005
    /\ scen.down = {}
    /\ Len(lastOp.notes) = 1
    /\ lastOp.notes[1].kind = "EXPIRED"
    /\ covered_calls = <<>>
    /\ TotalShares(portfolio, lastOp.notes[1].ticker) = 200
    /\ cash_balance = 5000000

\* C26: the expiry sweep removes exactly the contracts whose cutoff, 15:00 of
\* the expiration date, is reached at the time of the sweep, with one notice
\* for each; the contracts whose cutoff is still ahead, one expiring today
\* before 15:00 included, stay as they are, in their order, without a notice.
C26_SweepResolvesDue ==
    [][Ran("expiry") =>
          /\ covered_calls' = SelectSeq(covered_calls, LAMBDA c : ~CutoffReached(c))
          /\ \A j \in 1..Len(covered_calls') :
                 covered_calls'[j].exp_date > today
                 \/ (covered_calls'[j].exp_date = today /\ ~past3pm)
          /\ Len(lastOp'.notes) = Len(covered_calls) - Len(covered_calls')]_vars

\* After 15:00 on the first day the contract expiring that day is gone and
\* the one expiring later is still there, with one notice.
C26_Witness ==
    /\ scen.step = "outage"
    /\ lastOp.op = "expiry"
    /\ today = FirstDay /\ past3pm
    /\ Len(lastOp.notes) = 1
    /\ lastOp.notes[1].ticker = "AAPL"
    /\ Len(covered_calls) = 1
    /\ covered_calls[1].ticker = "MSFT"
    /\ covered_calls[1].exp_date = LastDay + 1

\* Before 15:00 on the first day the contract expiring that day stays.
C26_WitnessBeforeCutoff ==
    /\ scen.step = "outage"
    /\ lastOp.op = "expiry"
    /\ today = FirstDay /\ ~past3pm
    /\ lastOp.notes = <<>>
    /\ \E i \in 1..Len(covered_calls) : covered_calls[i].exp_date = today

\* C27: a contract whose cutoff is reached and whose price is at least
\* strike + 0.01, on a ticker with no position or with fewer than 100 shares
\* left, is removed by the expiry sweep with an error notice, and a sweep in
\* which every due contract in the money is such a one changes no position,
\* no dividend and not the cash.
C27_UncoveredExercise ==
    [][Ran("expiry") =>
          LET inmoney == {i \in 1..Len(covered_calls) :
                             /\ CutoffReached(covered_calls[i])
                             /\ PriceReachesMargin(i)}
              uncovered == {i \in inmoney :
                               LET t == covered_calls[i].ticker
                               IN  TotalShares(portfolio, t) - 100 * CalledUpTo(i - 1, t) < 100}
          IN  /\ \A i \in uncovered : Removed(i)
              /\ NotesOf("ERROR", Tickers) = Cardinality(uncovered)
              /\ inmoney = uncovered => UNCHANGED <<portfolio, dividends, cash_balance>>]_vars

\* A contract in the money on a position of 50 shares: an error notice, the
\* contract gone, the 50 shares and the cash as they were.
C27_Witness ==
    /\ scen.step = "outage"
    /\ lastOp.op = "expiry"
    /\ Len(lastOp.notes) = 1
    /\ lastOp.notes[1].kind = "ERROR"
    /\ covered_calls = <<>>
    /\ TotalShares(portfolio, lastOp.notes[1].ticker) = 50
    /\ cash_balance = 5000000

\* The backfill stated on the ledger as loaded: the pairs of a position and a
\* row in the order of the two loops, and the entries that the first n pairs
\* add.  A row is tracked when an entry of its ticker, loaded or added
\* before it, has an ex-dividend date at most 5 days from the row's date.
BackfillVisits ==
    [n \in 1..(Len(portfolio) * Len(scen.rows)) |->
        [position |-> portfolio[((n - 1) \div Len(scen.rows)) + 1],
         row |-> scen.rows[((n - 1) % Len(scen.rows)) + 1]]]

RECURSIVE Backfilled(_)
Backfilled(n) ==
    IF n = 0 THEN <<>>
    ELSE LET before == Backfilled(n - 1)
             v == BackfillVisits[n]
             tracked == save_dividends_data(dividends) \o before
             near == \E i \in 1..Len(tracked) :
                         /\ tracked[i].ticker = v.position.k
                         /\ tracked[i].ex_div_date - v.row.date \in -5..5
         IN  IF /\ v.row.date >= today - 180
                /\ v.row.date <= today
                /\ v.position.purchase_date < v.row.date
                /\ ~near
             THEN Append(before, [ticker |-> v.position.k,
                                  ex_div_date |-> v.row.date - 3,
                                  payment_date |-> v.row.date,
                                  dividend_per_share |-> v.row.amount,
                                  status |-> "paid"])
             ELSE before

RECURSIVE BackfilledCash(_)
BackfilledCash(entries) ==
    IF entries = <<>> THEN 0
    ELSE TotalShares(portfolio, Head(entries).ticker) * Head(entries).dividend_per_share
         + BackfilledCash(Tail(entries))

\* C28: the historical backfill adds an entry for a row of a held ticker
\* exactly when the row's date is within the last 180 days and not after
\* today, the position was bought strictly before it and no tracked dividend
\* of the ticker has an ex-dividend date within 5 days of it; the entry is
\* paid, dated the row's date with the ex-dividend date 3 days earlier, and
\* cash rises by the shares held times the amount of each added entry;
\* entries already tracked, positions and contracts are as before.
C28_HistoricalBackfill ==
    [][Ran("historical") =>
          LET added == Backfilled(Len(BackfillVisits)) IN
          /\ save_dividends_data(dividends') = save_dividends_data(dividends) \o added
          /\ cash_balance' = cash_balance + BackfilledCash(added)
          /\ Len(lastOp'.notes) = Len(added)
          /\ UNCHANGED <<portfolio, covered_calls>>]_vars

\* A row of 0.25 dated 180 days ago was credited on 100 shares held for
\* longer: 25 dollars, one more paid dividend with its ex-date 3 days before.
C28_Witness ==
    /\ scen.step = "backfill"
    /\ lastOp.op = "historical"
    /\ scen.rows = <<[date |-> FirstDay - 180, amount |-> 250]>>
    /\ cash_balance = 5000000 + 100 * 250
    /\ \E i \in 1..Len(dividends) :
           /\ dividends[i].ex_div_date = FirstDay - 183
           /\ dividends[i].payment_date = FirstDay - 180
           /\ dividends[i].status = "paid"
           /\ dividends[i].ticker = "AAPL"

\* The discovery stated on the ledger: the entry that the provider's answer
\* gives for a ticker, and the entries added for the positions in their order.
Discovered(t) ==
    LET info == scen.market.info IN
    [ticker |-> t, ex_div_date |-> info.exDividendDate,
     payment_date |-> info.exDividendDate + 21,
     dividend_per_share |-> info.dividendRate \div 4, status |-> "pending"]
TrackedCount(divs, t) ==
    Cardinality({i \in 1..Len(divs) :
                    /\ divs[i].ticker = t
                    /\ divs[i].ex_div_date = scen.market.info.exDividendDate})
Discoverable(t) ==
    LET info == scen.market.info IN
    /\ info.ok /\ info.exDividendDate # 0 /\ info.dividendRate # 0
    /\ info.exDividendDate >= today
    /\ TrackedCount(dividends, t) = 0

RECURSIVE DiscoveredUpTo(_)
DiscoveredUpTo(n) ==
    IF n = 0 THEN <<>>
    ELSE IF Discoverable(portfolio[n].k)
         THEN Append(DiscoveredUpTo(n - 1), Discovered(portfolio[n].k))
         ELSE DiscoveredUpTo(n - 1)

Kept(before, after) ==
    \A i \in 1..Len(before) :
        Has(after, before[i].k) /\ Get(after, before[i].k) = before[i]

\* C30: a creation never replaces an entry: an accepted open-call leaves
\* every contract in place and makes the contracts one more, an accepted
\* add-dividend does so for the dividends, and the backfill and the
\* discovery leave every dividend in place and make the dividends as many
\* more as they give notices.
C30_CreationKeepsEntries ==
    [][/\ Ran("open_call") /\ Accepted(lastOp')
            => /\ Kept(covered_calls, covered_calls')
               /\ Len(covered_calls') = Len(covered_calls) + 1
       /\ Ran("add_dividend") /\ Accepted(lastOp')
            => /\ Kept(dividends, dividends')
               /\ Len(dividends') = Len(dividends) + 1
       /\ Ran("historical") \/ Ran("upcoming")
            => /\ Kept(dividends, dividends')
               /\ Len(dividends') = Len(dividends) + Len(lastOp'.notes)]_vars

\* C31: in every state reached from an empty ledger, the position of each
\* ticker holds at least 100 shares per open contract on the ticker, no
\* manual exercise has been refused for want of shares and no expiry sweep
\* has given the notice that the shares for an exercise are missing.
C31_ContractsCovered ==
    /\ \A t \in Tickers : TotalShares(portfolio, t) >= 100 * OpenContracts(covered_calls, t)
    /\ lastOp.msg # "Not enough shares"
    /\ \A i \in 1..Len(lastOp.notes) : lastOp.notes[i].kind # "ERROR"

\* A position of exactly 100 shares under one contract, after the sale of
\* one of its lots was refused.
C31_Witness ==
    /\ lastOp.op = "sell"
    /\ ~Accepted(lastOp)
    /\ lastOp.req.shares = 100
    /\ TotalShares(portfolio, lastOp.req.ticker) = 100
    /\ OpenContracts(covered_calls, lastOp.req.ticker) = 1

\* The same ledger after the manual exercise of its contract went through.
C31_WitnessExercised ==
    /\ lastOp.op = "exercise"
    /\ Accepted(lastOp)
    /\ ~Has(portfolio, lastOp.req.ticker)
    /\ OpenContracts(covered_calls, lastOp.req.ticker) = 0

\* C33: an accepted buy of a ticker that is already held adds its shares to
\* the position and leaves the position's purchase date as it was; the
\* payment sweep pays every due pending dividend of a position bought before
\* the ex-dividend date on all the shares the position holds at that time,
\* whenever they were bought.
C33_TopUpKeepsDate ==
    [][/\ (Ran("buy") /\ Accepted(lastOp') /\ Has(portfolio, lastOp'.req.ticker))
            => LET t == lastOp'.req.ticker IN
               /\ Get(portfolio', t).purchase_date = Get(portfolio, t).purchase_date
               /\ Get(portfolio', t).shares = Get(portfolio, t).shares + lastOp'.req.shares
       /\ Ran("payments")
            => /\ \A i \in 1..Len(dividends) :
                      Payable(dividends[i])
                      => /\ Get(dividends', dividends[i].k).status = "paid"
                         /\ \E j \in 1..Len(lastOp'.notes) :
                                /\ lastOp'.notes[j].kind = "received"
                                /\ lastOp'.notes[j].ticker = dividends[i].ticker
                                /\ lastOp'.notes[j].shares
                                     = Get(portfolio, dividends[i].ticker).shares
               /\ cash_balance' = cash_balance + DuePayout(dividends)]_vars

\* 100 shares were held since the day before the ex-dividend date, 50 more
\* were bought at 40.00 on the ex-dividend date itself (the average price is
\* 140/3), and the dividend of 0.50 was received on all 150 shares.
C33_Witness ==
    /\ scen.step = "held"
    /\ lastOp.op = "payments"
    /\ Has(portfolio, "AAPL")
    /\ Get(portfolio, "AAPL").shares = 150
    /\ Get(portfolio, "AAPL").purchase_price = [n |-> 140000, d |-> 3]
    /\ Get(portfolio, "AAPL").purchase_date = FirstDay - 1
    /\ \E j \in 1..Len(lastOp.notes) :
           lastOp.notes[j].kind = "received" /\ lastOp.notes[j].shares = 150
    /\ cash_balance = 5000000 - 50 * 40000 + 150 * 500

\* C32: over any sequence of launches the one dividend event of 0.50 a share
\* is credited to cash at most once on the 100 shares held, whether by the
\* historical backfill or by the payment sweep: cash is the 5000 dollars of
\* the store, or 50 dollars more.
C32_EventCreditedOnce ==
    scen.step = "event" => cash_balance \in {5000000, 5000000 + 100 * 500}

\* The part of C32 that holds: a history row dated at most 5 days from the
\* ex-dividend date of the tracked entry is not credited a second time.
C32_CreditedOnceWithinTolerance ==
    (scen.step = "event" /\ scen.row - FirstDay \in 1..DedupTolerance)
        => cash_balance \in {5000000, 5000000 + 100 * 500}

====
